---------------------------- MODULE Spec2Model ----------------------------
(***************************************************************************)
(* Model of laser/combine_cut_engrave.py: the G-code text functions        *)
(* (is_empty_gcode, remove_gcode_footer, get_gcode_body_and_footer,        *)
(* combine_gcode_files), the orchestrator combine_cut_engrave, and the      *)
(* configuration functions (find_config_file, load_config,                 *)
(* validate_config, merge_config_with_cli, config_to_combine_config,       *)
(* generate_config_template, the configuration part of main).              *)
(*                                                                         *)
(* A line of text is a sequence of one-character strings, so that          *)
(* str.strip, str.rstrip("\n") and str.startswith are computed character   *)
(* by character.  A file is a record [exists, lines]; lines is what        *)
(* f.readlines() returns: every line carries its "\n", except possibly     *)
(* the last one.                                                           *)
(*                                                                         *)
(* A Python value is a record tagged with its type in field t; a number    *)
(* is the fraction n/d (d > 0), so that 0.01 is held exactly; a dict keeps *)
(* its keys in insertion order beside its key-value function.              *)
(***************************************************************************)
EXTENDS Integers, Sequences, FiniteSets

VARIABLES
    \* ---- combine_cut_engrave (the orchestrator) ----
    pc,                 \* position in combine_cut_engrave; "done" when it has
                        \* returned, "raised" when an exception has left it
    engraveFile,        \* the temporary file created at line 441
    cutFile,            \* the temporary file created at line 486
    outFile,            \* the destination file (output_path)
    temp_engrave_path,  \* the local variable: "None" or "path"
    success,            \* the local variable set by generate_layer_gcode
    result,             \* the returned tuple (success, error_message)
    assembled,          \* number of calls of combine_gcode_files
    \* ---- history of the run (what the collaborators did) ----
    engraveGen,         \* "none" | "ok" | "fail": generate_layer_gcode("engrave")
    engraveRaise,       \* an exception reached the handler of line 472
    engraveLines,       \* the text the generator wrote for the engrave layer
    cutGen,             \* "none" | "ok" | "fail": generate_layer_gcode("cut")
    cutRaise,           \* an exception reached the handler of line 526
    cutLines,           \* the text the generator wrote for the cut layer
    asmOutcome,         \* "none" | "ok" | "open_fails" | "write_fails"
    outOrig,            \* the destination file as it was before the run
    \* ---- the text functions applied to one artifact ----
    tPc,                \* "idle" | "input" | "classified" | "footer" | "header"
    tFile,              \* the artifact file handed to the function
    tEmpty,             \* what is_empty_gcode returned
    tLines,             \* what remove_gcode_footer / get_gcode_body_and_footer returned
    \* ---- combine_gcode_files called on its own ----
    aPc,                \* "idle" | "call" | "returned" | "raised"
    aEngravePath,       \* its engrave_path argument: "None" or "path"
    \* ---- the configuration functions ----
    cPc,                \* "idle" | "input" | the function that has returned
    config,             \* the parsed configuration file (None when there is none);
                        \* for generate_layer_gcode, its CombineConfig argument
    cli_args,           \* the CLI arguments, a dict
    header,             \* the lines of --header-file ([] without the option)
    footer,             \* the lines of --footer-file ([] without the option)
    cOut,               \* what the function returned or raised
    explicit_path,      \* the --config option: None or a path
    env_var,            \* os.getenv("COMBINE_CUT_ENGRAVE_CONFIG"): None or a path
    fsys                \* by path: None (no such file), the text of a file that
                        \* is no TOML, or the dict tomllib.load makes of the file

pipeVars == <<pc, engraveFile, cutFile, outFile, temp_engrave_path, success, result,
              assembled, engraveGen, engraveRaise, engraveLines, cutGen, cutRaise,
              cutLines, asmOutcome, outOrig>>
textVars == <<tPc, tFile, tEmpty, tLines>>
asmVars  == <<aPc, aEngravePath>>
cfgVars  == <<cPc, config, cli_args, header, footer, cOut, explicit_path, env_var, fsys>>
vars == <<pipeVars, textVars, asmVars, cfgVars>>

----------------------------------------------------------------------------
(* Bounds of the model *)

\* longest artifact (in lines) handed to a text function
MaxLen == 3
\* longest artifact (in lines) the generator writes in a pipeline run
MaxGenLen == 2
\* lines of a cut artifact handed to combine_gcode_files alone
MaxAsmCutLen == 3
\* most keys set in the tables of a configuration file handed to validate_config
MaxKeys == 1

----------------------------------------------------------------------------
(* Python string operations *)

NL == "\n"

\* str.strip() and friends strip these (the ASCII whitespace in the model)
IsSpace(c) == c \in {" ", NL, "\t"}

RECURSIVE LStrip(_)
LStrip(s) == IF s = <<>> THEN s
             ELSE IF IsSpace(Head(s)) THEN LStrip(Tail(s)) ELSE s

RECURSIVE RStrip(_)
RStrip(s) == IF s = <<>> THEN s
             ELSE IF IsSpace(s[Len(s)]) THEN RStrip(SubSeq(s, 1, Len(s) - 1)) ELSE s

\* line.strip()
strip(s) == RStrip(LStrip(s))

\* line.rstrip("\n")
RECURSIVE rstrip_nl(_)
rstrip_nl(s) == IF s = <<>> THEN s
                ELSE IF s[Len(s)] = NL THEN rstrip_nl(SubSeq(s, 1, Len(s) - 1)) ELSE s

\* s.startswith(p)
startswith(s, p) == Len(p) <= Len(s) /\ SubSeq(s, 1, Len(p)) = p

\* outfile.write(line + "\n")
WriteLine(line) == line \o <<NL>>

\* for line in lines: outfile.write(line + "\n")
WriteLines(ls) == [i \in 1..Len(ls) |-> WriteLine(ls[i])]

----------------------------------------------------------------------------
(* The string literals of the source *)

P_G1   == <<"G", "1">>
P_G2   == <<"G", "2">>
P_G3   == <<"G", "3">>
P_M3S  == <<"M", "3", " ", "S">>
P_G1F  == <<"G", "1", " ", "F">>
P_M5   == <<"M", "5">>
P_M5s  == <<"M", "5", ";">>
P_G0_origin   == <<"G", "0", " ", "X", "0", " ", "Y", "0">>
P_G0_origin_z == <<"G", "0", " ", "X", "0", " ", "Y", "0", " ", "Z", "0">>
P_G21  == <<"G", "2", "1">>
P_G21s == <<"G", "2", "1", ";">>
P_G20  == <<"G", "2", "0">>
P_G20s == <<"G", "2", "0", ";">>

\* "; ==========================================" (42 times "=")
separator == <<";", " ">> \o [i \in 1..42 |-> "="]
\* "; Layer transition: Engrave -> Cut"
layer_sep == <<";", " ", "L", "a", "y", "e", "r", " ", "t", "r", "a", "n", "s",
               "i", "t", "i", "o", "n", ":", " ", "E", "n", "g", "r", "a", "v",
               "e", " ", "-", ">", " ", "C", "u", "t">>
separator_end == separator

----------------------------------------------------------------------------
(* is_empty_gcode *)

\* the test of lines 241-243 on one line of the file
IsCuttingLine(line) ==
    LET stripped == strip(line) IN
    /\ \/ startswith(stripped, P_G1)
       \/ startswith(stripped, P_G2)
       \/ startswith(stripped, P_G3)
       \/ startswith(stripped, P_M3S)
    /\ ~startswith(stripped, P_G1F)

\* cutting_lines after the loop of lines 239-244
cutting_lines(lines) == Cardinality({i \in 1..Len(lines) : IsCuttingLine(lines[i])})

\* is_empty_gcode(path): open() raising OSError gives True
is_empty_gcode(f) == IF ~f.exists THEN TRUE ELSE cutting_lines(f.lines) = 0

----------------------------------------------------------------------------
(* remove_gcode_footer *)

\* the loop of lines 271-282: one iteration per line, carrying in_footer and result
RECURSIVE FooterLoop(_, _, _)
FooterLoop(lines, in_footer, res) ==
    IF lines = <<>> THEN res
    ELSE LET line == Head(lines)
             stripped == strip(line)
         IN  IF stripped = P_M5 \/ stripped = P_M5s
               THEN FooterLoop(Tail(lines), TRUE, res)
             ELSE IF in_footer /\ (\/ startswith(stripped, P_G0_origin)
                                   \/ startswith(stripped, P_G0_origin_z))
               THEN FooterLoop(Tail(lines), in_footer, res)
             ELSE IF in_footer /\ stripped = <<>>
               THEN FooterLoop(Tail(lines), in_footer, res)
             ELSE FooterLoop(Tail(lines), FALSE, Append(res, rstrip_nl(line)))

\* the loop of lines 271-282 without the reset of in_footer (lines 280-281)
RECURSIVE FooterLoop_NoReset(_, _, _)
FooterLoop_NoReset(lines, in_footer, res) ==
    IF lines = <<>> THEN res
    ELSE LET line == Head(lines)
             stripped == strip(line)
         IN  IF stripped = P_M5 \/ stripped = P_M5s
               THEN FooterLoop_NoReset(Tail(lines), TRUE, res)
             ELSE IF in_footer /\ (\/ startswith(stripped, P_G0_origin)
                                   \/ startswith(stripped, P_G0_origin_z))
               THEN FooterLoop_NoReset(Tail(lines), in_footer, res)
             ELSE IF in_footer /\ stripped = <<>>
               THEN FooterLoop_NoReset(Tail(lines), in_footer, res)
             ELSE FooterLoop_NoReset(Tail(lines), in_footer, Append(res, rstrip_nl(line)))

remove_gcode_footer_NoReset(lines) == FooterLoop_NoReset(lines, FALSE, <<>>)

\* the loop of lines 271-282 entering footer mode at the first "M5" line only
RECURSIVE FooterLoop_FirstOnly(_, _, _, _)
FooterLoop_FirstOnly(lines, in_footer, seen, res) ==
    IF lines = <<>> THEN res
    ELSE LET line == Head(lines)
             stripped == strip(line)
         IN  IF ~seen /\ (stripped = P_M5 \/ stripped = P_M5s)
               THEN FooterLoop_FirstOnly(Tail(lines), TRUE, TRUE, res)
             ELSE IF in_footer /\ (\/ startswith(stripped, P_G0_origin)
                                   \/ startswith(stripped, P_G0_origin_z))
               THEN FooterLoop_FirstOnly(Tail(lines), in_footer, seen, res)
             ELSE IF in_footer /\ stripped = <<>>
               THEN FooterLoop_FirstOnly(Tail(lines), in_footer, seen, res)
             ELSE FooterLoop_FirstOnly(Tail(lines), FALSE, seen,
                                       Append(res, rstrip_nl(line)))

remove_gcode_footer_FirstOnly(lines) == FooterLoop_FirstOnly(lines, FALSE, FALSE, <<>>)

\* remove_gcode_footer(path) on the lines read from the file
remove_gcode_footer(lines) == FooterLoop(lines, FALSE, <<>>)

----------------------------------------------------------------------------
(* get_gcode_body_and_footer *)

\* the test of line 309
IsUnitLine(line) ==
    LET stripped == strip(line) IN
    stripped = P_G21 \/ stripped = P_G21s \/ stripped = P_G20 \/ stripped = P_G20s

\* the loop of lines 307-313, carrying found_unit and result
RECURSIVE HeaderLoop(_, _, _)
HeaderLoop(lines, found_unit, res) ==
    IF lines = <<>> THEN res
    ELSE LET line == Head(lines) IN
         IF IsUnitLine(line)
           THEN HeaderLoop(Tail(lines), TRUE, res)
         ELSE IF found_unit
           THEN HeaderLoop(Tail(lines), found_unit, Append(res, rstrip_nl(line)))
         ELSE HeaderLoop(Tail(lines), found_unit, res)

\* get_gcode_body_and_footer(path) on the lines read from the file
get_gcode_body_and_footer(lines) == HeaderLoop(lines, FALSE, <<>>)

----------------------------------------------------------------------------
(* combine_gcode_files *)

NoFile == [exists |-> FALSE, lines |-> <<>>]

\* os.unlink(path)
unlink(f) == NoFile

\* if temp_engrave_path and os.path.exists(temp_engrave_path): os.unlink(...)
UnlinkEngraveIfSet(path, f) == IF path = "path" /\ f.exists THEN unlink(f) ELSE f

\* if os.path.exists(temp_cut_path): os.unlink(temp_cut_path)
UnlinkIfExists(f) == IF f.exists THEN unlink(f) ELSE f

\* EngravePart with the banner written outside the if of line 344
EngravePart_BannerOutsideIf(engrave_path, engF) ==
    (IF engrave_path = "path" /\ engF.exists
       THEN WriteLines(remove_gcode_footer(engF.lines))
       ELSE <<>>)
    \o << <<NL>>,
          WriteLine(separator),
          WriteLine(layer_sep),
          WriteLine(separator_end),
          <<NL>> >>

\* lines 344-352: what is written for the engrave file, when there is one
EngravePart(engrave_path, engF) ==
    IF engrave_path = "path" /\ engF.exists
      THEN WriteLines(remove_gcode_footer(engF.lines))
           \o << <<NL>>,
                 WriteLine(separator),
                 WriteLine(layer_sep),
                 WriteLine(separator_end),
                 <<NL>> >>
      ELSE <<>>

\* lines 355-357 with the footer removed from the cut file as well
CutPart_FooterStripped(cutF) ==
    WriteLines(remove_gcode_footer(WriteLines(get_gcode_body_and_footer(cutF.lines))))

\* lines 355-357: what is written for the cut file
CutPart(cutF) == WriteLines(get_gcode_body_and_footer(cutF.lines))

\* combine_gcode_files with the cut file written before the engrave file
combine_gcode_files_CutFirst(engrave_path, engF, cutF) ==
    [raised  |-> ~cutF.exists,
     written |-> (IF cutF.exists THEN CutPart(cutF) ELSE <<>>)
                 \o EngravePart(engrave_path, engF)]

\* combine_gcode_files(engrave_path, cut_path, output_path): the text written to
\* output_path, and whether open(cut_path) raised (the output is then left with
\* what was written before)
combine_gcode_files(engrave_path, engF, cutF) ==
    [raised  |-> ~cutF.exists,
     written |-> EngravePart(engrave_path, engF)
                 \o (IF cutF.exists THEN CutPart(cutF) ELSE <<>>)]

----------------------------------------------------------------------------
(* Python values *)

NoneV        == [t |-> "None"]
Str(x)       == [t |-> "str", s |-> x]
IntV(x)      == [t |-> "int", n |-> x, d |-> 1]
FloatV(x, y) == [t |-> "float", n |-> x, d |-> y]
BoolV(b)     == [t |-> "bool", n |-> IF b THEN 1 ELSE 0, d |-> 1]
ListV(l)     == [t |-> "list", l |-> l]

\* the dict built by inserting the keys ks[1], ks[2], ... with the values vs
Dict(ks, vs) ==
    [t |-> "dict", keys |-> ks,
     kv |-> [k \in {ks[i] : i \in 1..Len(ks)} |->
                vs[CHOOSE i \in 1..Len(ks) : ks[i] = k]]]

\* isinstance(v, T), T one of str, int, (int, float) written "number", bool,
\* list, dict; bool is a subclass of int
isinstance(v, T) ==
    CASE T = "str"    -> v.t = "str"
      [] T = "int"    -> v.t \in {"int", "bool"}
      [] T = "number" -> v.t \in {"int", "bool", "float"}
      [] T = "bool"   -> v.t = "bool"
      [] T = "list"   -> v.t = "list"
      [] T = "dict"   -> v.t = "dict"

\* key in c, for a dict or a list c
In(key, c) ==
    CASE c.t = "dict" -> key \in DOMAIN c.kv
      [] c.t = "list" -> \E i \in 1..Len(c.l) : c.l[i] = Str(key)

\* c.get(key, default), for a dict c
Get(c, key, default) == IF key \in DOMAIN c.kv THEN c.kv[key] ELSE default

\* bool(v), as `if`, `or` and `not` take it (lines 167, 613, 1363)
Truthy(v) ==
    CASE v.t = "None" -> FALSE
      [] v.t = "list" -> v.l # <<>>
      [] v.t = "dict" -> v.keys # <<>>
      [] v.t = "str"  -> v.s # ""
      [] OTHER        -> v.n # 0

\* what a call returned or raised
Return(v)        == [raised |-> "None", named |-> "", value |-> v]
Raise(exc, what) == [raised |-> exc, named |-> what, value |-> NoneV]

----------------------------------------------------------------------------
(* find_config_file *)

\* Path(p).exists()
exists(fs, p) == p.s \in DOMAIN fs /\ fs[p.s] # NoneV

\* Path.cwd() / "config.toml"
cwd_config == Str("config.toml")

\* find_config_file falling back to the other sources when the explicit
\* path does not exist
find_config_file_FallsBack(explicit, env, fs) ==
    IF Truthy(explicit) /\ exists(fs, explicit) THEN explicit
    ELSE IF exists(fs, cwd_config) THEN cwd_config
    ELSE IF Truthy(env) THEN (IF exists(fs, env) THEN env ELSE NoneV)
    ELSE NoneV

\* find_config_file(explicit_path), with os.getenv(...) and the files on disk
find_config_file(explicit, env, fs) ==
    IF Truthy(explicit) THEN (IF exists(fs, explicit) THEN explicit ELSE NoneV)
    ELSE IF exists(fs, cwd_config) THEN cwd_config
    ELSE IF Truthy(env) THEN (IF exists(fs, env) THEN env ELSE NoneV)
    ELSE NoneV

----------------------------------------------------------------------------
(* validate_config *)

\* the list of line 692: (key, expected type, constraint)
validations == <<
    [key |-> "unit", type |-> "str", constraint |-> "list", list |-> {"mm", "in"}],
    [key |-> "travel_speed", type |-> "number", constraint |-> "x > 0", list |-> {}],
    [key |-> "passes", type |-> "int", constraint |-> "x > 0", list |-> {}],
    [key |-> "pass_depth", type |-> "number", constraint |-> "x > 0", list |-> {}],
    [key |-> "dwell_time", type |-> "number", constraint |-> "x >= 0", list |-> {}],
    [key |-> "approximation_tolerance", type |-> "number", constraint |-> "x > 0",
     list |-> {}],
    [key |-> "machine_origin", type |-> "str", constraint |-> "list",
     list |-> {"bottom-left", "center", "top-left"}],
    [key |-> "zero_machine", type |-> "bool", constraint |-> "None", list |-> {}],
    [key |-> "invert_y_axis", type |-> "bool", constraint |-> "None", list |-> {}],
    [key |-> "use_document_size", type |-> "bool", constraint |-> "None", list |-> {}],
    [key |-> "bed_width", type |-> "number", constraint |-> "x > 0", list |-> {}],
    [key |-> "bed_height", type |-> "number", constraint |-> "x > 0", list |-> {}],
    [key |-> "scaling_factor", type |-> "number", constraint |-> "x > 0", list |-> {}],
    [key |-> "do_z_axis_start", type |-> "bool", constraint |-> "None", list |-> {}],
    [key |-> "move_to_origin_end", type |-> "bool", constraint |-> "None", list |-> {}],
    [key |-> "do_laser_off_start", type |-> "bool", constraint |-> "None", list |-> {}],
    [key |-> "do_laser_off_end", type |-> "bool", constraint |-> "None", list |-> {}] >>

\* lines 713-725 for one entry of the list: "" when nothing is raised
GlobalCheck(global_config, e) ==
    IF global_config.t \notin {"dict", "list"} THEN "TypeError"
    ELSE IF ~In(e.key, global_config) THEN ""
    ELSE IF global_config.t = "list" THEN "TypeError"
    ELSE LET value == global_config.kv[e.key] IN
         IF ~isinstance(value, e.type) THEN "ValueError"
         ELSE IF e.constraint = "list" /\ value.s \notin e.list THEN "ValueError"
         ELSE IF e.constraint = "x > 0" /\ ~(value.n > 0) THEN "ValueError"
         ELSE IF e.constraint = "x >= 0" /\ ~(value.n >= 0) THEN "ValueError"
         ELSE ""

\* lines 732-744 with the power test of line 743 written 0 <= power < 255
SectionCheck_PowerBelow255(section_data) ==
    IF ~isinstance(section_data, "dict") THEN TRUE
    ELSE \/ /\ In("cutting_speed", section_data)
            /\ LET cutting_speed == section_data.kv["cutting_speed"] IN
               ~isinstance(cutting_speed, "number") \/ cutting_speed.n <= 0
         \/ /\ In("power", section_data)
            /\ LET power == section_data.kv["power"] IN
               \/ ~isinstance(power, "int")
               \/ ~(0 <= power.n /\ power.n < 255 * power.d)

\* lines 732-744 for one section: TRUE when ValueError is raised
SectionCheck(section_data) ==
    IF ~isinstance(section_data, "dict") THEN TRUE
    ELSE \/ /\ In("cutting_speed", section_data)
            /\ LET cutting_speed == section_data.kv["cutting_speed"] IN
               ~isinstance(cutting_speed, "number") \/ cutting_speed.n <= 0
         \/ /\ In("power", section_data)
            /\ LET power == section_data.kv["power"] IN
               \/ ~isinstance(power, "int")
               \/ ~(0 <= power.n /\ power.n <= 255 * power.d)

\* validate_config(config): the first check that raises, in the order of the
\* code: the global section, the list of line 692, the sections in the order
\* of the file
validate_config(cfg) ==
    IF ~In("global", cfg) THEN Raise("ValueError", "global")
    ELSE LET global_config == cfg.kv["global"]
             bad == {i \in 1..Len(validations) :
                        GlobalCheck(global_config, validations[i]) # ""}
             badsec == {i \in 1..Len(cfg.keys) :
                           /\ cfg.keys[i] # "global"
                           /\ SectionCheck(cfg.kv[cfg.keys[i]])}
         IN  IF bad # {}
               THEN LET i == CHOOSE i \in bad : \A j \in bad : i <= j
                        exc == GlobalCheck(global_config, validations[i])
                    IN  Raise(exc, IF exc = "ValueError" THEN validations[i].key ELSE "")
             ELSE IF badsec # {}
               THEN Raise("ValueError",
                          cfg.keys[CHOOSE i \in badsec : \A j \in badsec : i <= j])
             ELSE Return(NoneV)

----------------------------------------------------------------------------
(* CombineConfig *)

\* the defaults of CombineConfig.__init__, lines 114-140
CombineConfigDefaults ==
    [travel_speed |-> IntV(3000),
     engrave_cutting_speed |-> IntV(1000),
     engrave_power |-> IntV(75),
     cut_cutting_speed |-> IntV(250),
     cut_power |-> IntV(255),
     unit |-> Str("mm"),
     passes |-> IntV(1),
     pass_depth |-> IntV(1),
     dwell_time |-> IntV(0),
     approximation_tolerance |-> FloatV(1, 100),
     tool_off_command |-> Str("M5;"),
     machine_origin |-> Str("bottom-left"),
     zero_machine |-> BoolV(FALSE),
     invert_y_axis |-> BoolV(FALSE),
     use_document_size |-> BoolV(TRUE),
     bed_width |-> IntV(200),
     bed_height |-> IntV(200),
     horizontal_offset |-> IntV(0),
     vertical_offset |-> IntV(0),
     scaling_factor |-> IntV(1),
     z_axis_start |-> IntV(0),
     do_z_axis_start |-> BoolV(FALSE),
     move_to_origin_end |-> BoolV(FALSE),
     do_laser_off_start |-> BoolV(TRUE),
     do_laser_off_end |-> BoolV(TRUE),
     header |-> NoneV,
     footer |-> NoneV]

\* CombineConfig(**kw): TypeError on a keyword that is no parameter
CombineConfig(kw) ==
    IF ~(DOMAIN kw \subseteq DOMAIN CombineConfigDefaults) THEN Raise("TypeError", "")
    ELSE Return([f \in DOMAIN CombineConfigDefaults |->
                   LET arg == IF f \in DOMAIN kw THEN kw[f] ELSE CombineConfigDefaults[f]
                   IN  IF f \in {"header", "footer"} /\ ~Truthy(arg)
                         THEN ListV(<<>>) ELSE arg])

----------------------------------------------------------------------------
(* CombineConfig.to_conversion_config *)

Digit == <<"0", "1", "2", "3", "4", "5", "6", "7", "8", "9">>

\* str(n) of an int
RECURSIVE str_int(_)
str_int(n) ==
    IF n < 0 THEN "-" \o str_int(0 - n)
    ELSE IF n < 10 THEN Digit[n + 1]
    ELSE str_int(n \div 10) \o Digit[(n % 10) + 1]

\* f"{v}" of line 196, for the int, bool or None a power may be
format(v) ==
    CASE v.t = "int"  -> str_int(v.n)
      [] v.t = "bool" -> IF v.n = 1 THEN "True" ELSE "False"
      [] v.t = "None" -> "None"

\* to_conversion_config passing the engrave speed for every layer
to_conversion_config_EngraveSpeed(self, layer_name, cutting_speed, power) ==
    [unit |-> self.unit,
     travel_speed |-> self.travel_speed,
     cutting_speed |-> self.engrave_cutting_speed,
     passes |-> self.passes,
     pass_depth |-> self.pass_depth,
     dwell_time |-> self.dwell_time,
     approximation_tolerance |-> self.approximation_tolerance,
     tool_power_command |-> Str("M3 S" \o format(power) \o ";"),
     tool_off_command |-> self.tool_off_command,
     machine_origin |-> self.machine_origin,
     zero_machine |-> self.zero_machine,
     invert_y_axis |-> self.invert_y_axis,
     use_document_size |-> self.use_document_size,
     bed_width |-> self.bed_width,
     bed_height |-> self.bed_height,
     horizontal_offset |-> self.horizontal_offset,
     vertical_offset |-> self.vertical_offset,
     scaling_factor |-> self.scaling_factor,
     do_z_axis_start |-> self.do_z_axis_start,
     z_axis_start |-> self.z_axis_start,
     move_to_origin_end |-> self.move_to_origin_end,
     do_laser_off_start |-> self.do_laser_off_start,
     do_laser_off_end |-> self.do_laser_off_end,
     layer_name |-> Str(layer_name),
     header |-> self.header,
     footer |-> self.footer]

\* self.to_conversion_config(layer_name, cutting_speed, power): the keyword
\* arguments handed to ConversionConfig, lines 188-215
to_conversion_config(self, layer_name, cutting_speed, power) ==
    [unit |-> self.unit,
     travel_speed |-> self.travel_speed,
     cutting_speed |-> cutting_speed,
     passes |-> self.passes,
     pass_depth |-> self.pass_depth,
     dwell_time |-> self.dwell_time,
     approximation_tolerance |-> self.approximation_tolerance,
     tool_power_command |-> Str("M3 S" \o format(power) \o ";"),
     tool_off_command |-> self.tool_off_command,
     machine_origin |-> self.machine_origin,
     zero_machine |-> self.zero_machine,
     invert_y_axis |-> self.invert_y_axis,
     use_document_size |-> self.use_document_size,
     bed_width |-> self.bed_width,
     bed_height |-> self.bed_height,
     horizontal_offset |-> self.horizontal_offset,
     vertical_offset |-> self.vertical_offset,
     scaling_factor |-> self.scaling_factor,
     do_z_axis_start |-> self.do_z_axis_start,
     z_axis_start |-> self.z_axis_start,
     move_to_origin_end |-> self.move_to_origin_end,
     do_laser_off_start |-> self.do_laser_off_start,
     do_laser_off_end |-> self.do_laser_off_end,
     layer_name |-> Str(layer_name),
     header |-> self.header,
     footer |-> self.footer]

----------------------------------------------------------------------------
(* merge_config_with_cli *)

\* the keys of the dict of line 771
global_settings ==
    {"travel_speed", "unit", "passes", "pass_depth", "dwell_time",
     "approximation_tolerance", "tool_off_command", "machine_origin", "zero_machine",
     "invert_y_axis", "use_document_size", "bed_width", "bed_height",
     "horizontal_offset", "vertical_offset", "scaling_factor", "z_axis_start",
     "do_z_axis_start", "move_to_origin_end", "do_laser_off_start", "do_laser_off_end"}

\* the keys set at lines 796-799
layer_settings ==
    {"engrave_cutting_speed", "engrave_power", "cut_cutting_speed", "cut_power"}

\* lines 830-832 never applying a CLI value
CliOverrides_Ignored(settings, cli) == settings

\* lines 830-832: the CLI value replaces the setting when the key is in
\* cli_args and its value is not None
CliOverrides(settings, cli) ==
    [k \in DOMAIN settings |->
        IF In(k, cli) /\ cli.kv[k].t # "None" THEN cli.kv[k] ELSE settings[k]]

\* merge_config_with_cli(config, cli_args)
merge_config_with_cli(cfg, cli) ==
    LET global_config  == Get(cfg, "global", Dict(<<>>, <<>>))
        cut_config     == Get(cfg, "cut", Dict(<<>>, <<>>))
        engrave_config == Get(cfg, "engrave", Dict(<<>>, <<>>))
    IN
    IF global_config.t # "dict" \/ cut_config.t # "dict" \/ engrave_config.t # "dict"
      THEN Raise("AttributeError", "")
    ELSE
    LET defaults == CombineConfig(<<>>).value
        from_file ==
            [k \in global_settings \cup layer_settings |->
                CASE k = "engrave_cutting_speed" ->
                        Get(engrave_config, "cutting_speed", defaults.engrave_cutting_speed)
                  [] k = "engrave_power" ->
                        Get(engrave_config, "power", defaults.engrave_power)
                  [] k = "cut_cutting_speed" ->
                        Get(cut_config, "cutting_speed", defaults.cut_cutting_speed)
                  [] k = "cut_power" ->
                        Get(cut_config, "power", defaults.cut_power)
                  [] OTHER -> Get(global_config, k, defaults[k])]
        settings == CliOverrides(from_file, cli)
        hdr == Get(global_config, "header", ListV(<<>>))
        ftr == Get(global_config, "footer", ListV(<<>>))
    IN  CombineConfig([k \in DOMAIN settings \cup {"header", "footer"} |->
                          CASE k = "header" ->
                                  IF isinstance(hdr, "list") THEN hdr ELSE ListV(<<>>)
                            [] k = "footer" ->
                                  IF isinstance(ftr, "list") THEN ftr ELSE ListV(<<>>)
                            [] OTHER -> settings[k]])

----------------------------------------------------------------------------
(* config_to_combine_config *)

\* config_to_combine_config(config, layer_name, cli_overrides), layer_name
\* "engrave" or "cut"
config_to_combine_config(cfg, layer_name, cli_overrides) ==
    LET global_config == Get(cfg, "global", Dict(<<>>, <<>>))
        layer_config  == Get(cfg, layer_name, Dict(<<>>, <<>>))
        speed_key == IF layer_name = "engrave" THEN "engrave_cutting_speed"
                                               ELSE "cut_cutting_speed"
        power_key == IF layer_name = "engrave" THEN "engrave_power" ELSE "cut_power"
    IN
    IF global_config.t # "dict" \/ layer_config.t # "dict"
      THEN Raise("AttributeError", "")
    ELSE
    LET \* lines 867-873
        layered ==
            [k \in DOMAIN global_config.kv
                    \cup {x \in {speed_key} : In("cutting_speed", layer_config)}
                    \cup {x \in {power_key} : In("power", layer_config)} |->
                IF k = speed_key /\ In("cutting_speed", layer_config)
                  THEN layer_config.kv["cutting_speed"]
                ELSE IF k = power_key /\ In("power", layer_config)
                  THEN layer_config.kv["power"]
                ELSE global_config.kv[k]]
        \* lines 876-877
        settings ==
            IF Truthy(cli_overrides)
              THEN [k \in DOMAIN layered \cup DOMAIN cli_overrides.kv |->
                       IF k \in DOMAIN cli_overrides.kv THEN cli_overrides.kv[k]
                                                          ELSE layered[k]]
              ELSE layered
        \* settings.pop(key, default), lines 880-883 and 904-905
        pop(key, default) == IF key \in DOMAIN settings THEN settings[key] ELSE default
        hdr == pop("header", ListV(<<>>))
        ftr == pop("footer", ListV(<<>>))
        popped == layer_settings \cup {"header", "footer"}
    IN  IF ~(DOMAIN settings \ popped \subseteq DOMAIN CombineConfigDefaults)
          THEN Raise("TypeError", "")
        ELSE CombineConfig(
               [k \in (DOMAIN settings \ popped) \cup popped |->
                   CASE k = "engrave_cutting_speed" -> pop(k, IntV(1000))
                     [] k = "engrave_power"         -> pop(k, IntV(75))
                     [] k = "cut_cutting_speed"     -> pop(k, IntV(250))
                     [] k = "cut_power"             -> pop(k, IntV(255))
                     [] k = "header" ->
                           IF isinstance(hdr, "list") THEN hdr ELSE ListV(<<>>)
                     [] k = "footer" ->
                           IF isinstance(ftr, "list") THEN ftr ELSE ListV(<<>>)
                     [] OTHER -> settings[k]])

----------------------------------------------------------------------------
(* main: the configuration it hands to combine_cut_engrave *)

\* the defaults of the options of lines 1160-1273, converted to their type
click_defaults ==
    [travel_speed |-> FloatV(3000, 1),
     engrave_cutting_speed |-> FloatV(1000, 1),
     engrave_power |-> IntV(75),
     cut_cutting_speed |-> FloatV(250, 1),
     cut_power |-> IntV(255),
     unit |-> Str("mm"),
     passes |-> IntV(1),
     pass_depth |-> FloatV(1, 1),
     dwell_time |-> FloatV(0, 1),
     approximation_tolerance |-> FloatV(1, 100),
     tool_off_command |-> Str("M5;"),
     machine_origin |-> Str("bottom-left"),
     zero_machine |-> BoolV(FALSE),
     invert_y_axis |-> BoolV(FALSE),
     use_document_size |-> BoolV(TRUE),
     bed_width |-> FloatV(200, 1),
     bed_height |-> FloatV(200, 1),
     horizontal_offset |-> FloatV(0, 1),
     vertical_offset |-> FloatV(0, 1),
     scaling_factor |-> FloatV(1, 1),
     z_axis_start |-> FloatV(0, 1),
     do_z_axis_start |-> BoolV(FALSE),
     move_to_origin_end |-> BoolV(FALSE),
     do_laser_off_start |-> BoolV(TRUE),
     do_laser_off_end |-> BoolV(TRUE)]

\* the option of lines 1160-1273 yields this value: type=float, type=int,
\* click.Choice, type=str and the boolean flags
click_accepts(k, v) ==
    CASE k = "unit"           -> v.t = "str" /\ v.s \in {"mm", "in"}
      [] k = "machine_origin" -> v.t = "str" /\ v.s \in {"bottom-left", "center", "top-left"}
      [] OTHER                -> v.t = click_defaults[k].t

\* click_parameters handing over only the options given on the command line
click_parameters_OnlyGiven(flags) == flags.kv

\* the parameters main receives when the options of the dict flags were given
click_parameters(flags) ==
    [k \in DOMAIN click_defaults |->
        IF In(k, flags) THEN flags.kv[k] ELSE click_defaults[k]]

\* lines 1394-1397 never replacing the list of the file
HeaderOverride_Never(from_file, from_cli) == from_file

\* lines 1394-1397: a non-empty list read from --header-file or --footer-file
\* replaces the list of the merged configuration
HeaderOverride(from_file, from_cli) ==
    IF from_cli # <<>> THEN ListV(from_cli) ELSE from_file

\* lines 1362-1429 of main: the CombineConfig built from file_config (None
\* when no file was loaded), the parameters and the two lists
main_config(file_config, params, hdr, ftr) ==
    IF Truthy(file_config)
      THEN LET m == merge_config_with_cli(
                       file_config,
                       [t |-> "dict", keys |-> <<>>, kv |-> params])
           IN  IF m.raised # "None" THEN m
               ELSE Return([m.value EXCEPT
                               !.header = HeaderOverride(@, hdr),
                               !.footer = HeaderOverride(@, ftr)])
      ELSE CombineConfig([k \in DOMAIN params \cup {"header", "footer"} |->
                             CASE k = "header" -> ListV(hdr)
                               [] k = "footer" -> ListV(ftr)
                               [] OTHER -> params[k]])

----------------------------------------------------------------------------
(* load_config *)

\* load_config(config_path) from line 655 on (tomllib is not None)
load_config(config_path, env, fs) ==
    LET resolved_path == find_config_file(config_path, env, fs) IN
    IF resolved_path = NoneV THEN Raise("FileNotFoundError", "")
    ELSE LET content == fs[resolved_path.s] IN
         IF content.t # "dict" THEN Raise("ValueError", "")
         ELSE LET v == validate_config(content) IN
              IF v.raised # "None" THEN v ELSE Return(content)

----------------------------------------------------------------------------
(* generate_config_template *)

\* the template of lines 927-1065 as tomllib.load parses it: the tables
\* [global], [cut] and [engrave] with their keys in the order written
generate_config_template ==
    Dict(<<"global", "cut", "engrave">>,
         << Dict(<<"unit", "travel_speed", "passes", "pass_depth", "dwell_time",
                   "approximation_tolerance", "tool_off_command", "machine_origin",
                   "zero_machine", "invert_y_axis", "use_document_size", "bed_width",
                   "bed_height", "horizontal_offset", "vertical_offset",
                   "scaling_factor", "z_axis_start", "do_z_axis_start",
                   "move_to_origin_end", "do_laser_off_start", "do_laser_off_end">>,
                 <<Str("mm"), FloatV(3000, 1), IntV(1), FloatV(1, 1), FloatV(0, 1),
                   FloatV(1, 100), Str("M5;"), Str("bottom-left"),
                   BoolV(FALSE), BoolV(FALSE), BoolV(TRUE), FloatV(200, 1),
                   FloatV(200, 1), FloatV(0, 1), FloatV(0, 1),
                   FloatV(1, 1), FloatV(0, 1), BoolV(FALSE),
                   BoolV(FALSE), BoolV(TRUE), BoolV(TRUE)>>),
            Dict(<<"cutting_speed", "power">>, <<FloatV(250, 1), IntV(255)>>),
            Dict(<<"cutting_speed", "power">>, <<FloatV(1000, 1), IntV(75)>>) >>)

----------------------------------------------------------------------------
(* The configuration files tomllib.load may hand over *)

\* the values a key of a parsed file may hold
CfgValues == {Str("mm"), Str("center"), IntV(1), IntV(0), IntV(256),
              FloatV(1, 100), FloatV(-1, 2), BoolV(TRUE)}

\* the keys a [global] table may hold: the keys merge_config_with_cli reads
\* and the two layer keys
GlobalKeys == <<"unit", "travel_speed", "passes", "pass_depth", "dwell_time",
                "approximation_tolerance", "tool_off_command", "machine_origin",
                "zero_machine", "invert_y_axis", "use_document_size", "bed_width",
                "bed_height", "horizontal_offset", "vertical_offset",
                "scaling_factor", "z_axis_start", "do_z_axis_start",
                "move_to_origin_end", "do_laser_off_start", "do_laser_off_end",
                "cutting_speed", "power">>

\* the keys of a layer table
SectionKeys == <<"cutting_speed", "power">>

\* the tables with k of these keys, in the order of the sequence
Tables(keys, k) ==
    {Dict([i \in 1..k |-> keys[is[i]]], vs) :
        is \in {f \in [1..k -> 1..Len(keys)] : \A i \in 1..(k - 1) : f[i] < f[i + 1]},
        vs \in [1..k -> CfgValues]}

\* the values the key header or footer of a [global] table may hold
ListValues == {ListV(<<>>), ListV(<<"G90">>), ListV(<<"G90", "G21">>), Str("G90")}

\* the lines --header-file or --footer-file may hold
CliLists == {<<>>, <<"M3 S0">>, <<"G28", "M3 S0">>}

\* a table with no key, or with this key set to one of these values
OneKey(key, values) == {Dict(<<>>, <<>>)} \cup {Dict(<<key>>, <<v>>) : v \in values}

\* a top-level dict of an optional "global" entry and an optional other entry
TopLevel(g, name, sec) ==
    Dict((IF g = NoneV THEN <<>> ELSE <<"global">>)
            \o (IF sec = NoneV THEN <<>> ELSE <<name>>),
         (IF g = NoneV THEN <<>> ELSE <<g>>)
            \o (IF sec = NoneV THEN <<>> ELSE <<sec>>))

----------------------------------------------------------------------------
(* The artifacts the external generator may write *)

L_G90         == <<"G", "9", "0">>
L_G21         == <<"G", "2", "1">>
L_G20s        == <<"G", "2", "0", ";">>
L_M5          == <<"M", "5">>
L_M5s_ind     == <<" ", " ", "M", "5", ";", " ">>
L_blank       == <<>>
L_G0_origin   == <<"G", "0", " ", "X", "0", " ", "Y", "0">>
L_G0_origin_z == <<"G", "0", " ", "X", "0", " ", "Y", "0", " ", "Z", "0">>
L_G0_near     == <<"G", "0", " ", "X", "0", " ", "Y", "0", ".", "5">>
L_G1_cut      == <<"G", "1", " ", "X", "1", "0", " ", "Y", "1", "0">>
L_G1_feed     == <<"G", "1", " ", "F", "5", "0", "0">>
L_G1_feed_cut == <<"G", "1", " ", "F", "5", "0", "0", " ", "X", "1", "0", " ", "Y", "1", "0">>
L_G3_arc_ind  == <<" ", "G", "3", " ", "X", "1", " ", "Y", "1", " ", "I", "1">>
L_M3_on       == <<"M", "3", " ", "S", "2", "5", "5", ";">>

\* the lines (without their "\n") an artifact handed to a text function is made of
Vocab == {L_G90, L_G21, L_G20s, L_M5, L_M5s_ind, L_blank, L_G0_origin, L_G0_origin_z,
          L_G0_near, L_G1_cut, L_G1_feed, L_G1_feed_cut, L_G3_arc_ind, L_M3_on}

\* the lines an artifact of a pipeline run is made of
GenVocab == {L_G21, L_M5, L_G0_origin, L_G1_cut, L_G1_feed}

BoundedSeq(S, n) == UNION {[1..k -> S] : k \in 0..n}

\* a text file of these lines, every line ended by "\n"
Terminated(ls) == [i \in 1..Len(ls) |-> ls[i] \o <<NL>>]

\* the same file without the "\n" of its last line
Unterminated(ls) == [i \in 1..Len(ls) |-> IF i < Len(ls) THEN ls[i] \o <<NL>> ELSE ls[i]]

\* the artifacts the generator writes in a pipeline run
GenArtifacts == {Terminated(ls) : ls \in BoundedSeq(GenVocab, MaxGenLen)}

File(ls) == [exists |-> TRUE, lines |-> ls]

----------------------------------------------------------------------------
(* combine_cut_engrave: the returned tuples *)

NoResult == [returned |-> FALSE, ok |-> FALSE, msg |-> "None", advice |-> {}]

\* return (False, "Failed to generate cut layer G-code. Error: Cut layer is
\* required but not found in SVG")
CutFailedResult ==
    [returned |-> TRUE, ok |-> FALSE,
     msg |-> "Failed to generate cut layer G-code", advice |-> {}]

\* return False, error_msg: the message of lines 511-519 and its four
\* troubleshooting points
CutEmptyResult ==
    [returned |-> TRUE, ok |-> FALSE,
     msg |-> "Error: Cut layer found but contains no paths to process",
     advice |-> {"layer exists", "convert objects to paths",
                 "layer names case-sensitive", "path elements not shapes"}]

\* return False, f"Error generating cut layer: {e}"
CutErrorResult ==
    [returned |-> TRUE, ok |-> FALSE, msg |-> "Error generating cut layer", advice |-> {}]

\* return True, None
SuccessResult == [returned |-> TRUE, ok |-> TRUE, msg |-> "None", advice |-> {}]

\* return False, f"Failed to create combined G-code file: {e}"
CombineFailedResult ==
    [returned |-> TRUE, ok |-> FALSE,
     msg |-> "Failed to create combined G-code file", advice |-> {}]

----------------------------------------------------------------------------
(* combine_cut_engrave: one action per step *)

\* the destination before the run: absent, or a program written earlier
OldProgram == File(Terminated(<<L_G90, L_G1_cut>>))

InitPipe ==
    /\ pc = "start"
    /\ engraveFile = NoFile
    /\ cutFile = NoFile
    /\ outFile \in {NoFile, OldProgram}
    /\ outOrig = outFile
    /\ temp_engrave_path = "unset"
    /\ success = FALSE
    /\ result = NoResult
    /\ assembled = 0
    /\ engraveGen = "none"
    /\ engraveRaise = FALSE
    /\ engraveLines = <<>>
    /\ cutGen = "none"
    /\ cutRaise = FALSE
    /\ cutLines = <<>>
    /\ asmOutcome = "none"

IdlePipe ==
    /\ pc = "idle"
    /\ engraveFile = NoFile
    /\ cutFile = NoFile
    /\ outFile = NoFile
    /\ outOrig = NoFile
    /\ temp_engrave_path = "unset"
    /\ success = FALSE
    /\ result = NoResult
    /\ assembled = 0
    /\ engraveGen = "none"
    /\ engraveRaise = FALSE
    /\ engraveLines = <<>>
    /\ cutGen = "none"
    /\ cutRaise = FALSE
    /\ cutLines = <<>>
    /\ asmOutcome = "none"

IdleText == tPc = "idle" /\ tFile = NoFile /\ tEmpty = FALSE /\ tLines = <<>>

IdleAsm == aPc = "idle" /\ aEngravePath = "None"

IdleCfg ==
    /\ cPc = "idle"
    /\ config = NoneV
    /\ cli_args = NoneV
    /\ header = <<>>
    /\ footer = <<>>
    /\ cOut = Return(NoneV)
    /\ explicit_path = NoneV
    /\ env_var = NoneV
    /\ fsys = <<>>

\* lines 441-442: NamedTemporaryFile(delete=False) creates the file, empty; or
\* it raises (output_dir is no directory, or not writable) and, no handler
\* enclosing the line, the exception leaves combine_cut_engrave
CreateEngraveTemp ==
    /\ pc = "start"
    /\ \/ /\ engraveFile' = File(<<>>)
          /\ temp_engrave_path' = "path"
          /\ pc' = "engrave_gen"
       \/ /\ pc' = "raised"
          /\ UNCHANGED <<engraveFile, temp_engrave_path>>
    /\ UNCHANGED <<cutFile, outFile, success, result, assembled, engraveGen,
                   engraveRaise, engraveLines, cutGen, cutRaise, cutLines,
                   asmOutcome, outOrig>>
    /\ UNCHANGED <<textVars, asmVars, cfgVars>>

\* lines 445-452 with generate_layer_gcode (391-396): the converter either writes
\* the artifact (True) or raises, which generate_layer_gcode turns into False
GenerateEngrave ==
    /\ pc = "engrave_gen"
    /\ \/ /\ success' = FALSE
          /\ engraveGen' = "fail"
          /\ UNCHANGED <<engraveFile, engraveLines>>
       \/ \E ls \in GenArtifacts :
          /\ success' = TRUE
          /\ engraveGen' = "ok"
          /\ engraveFile' = File(ls)
          /\ engraveLines' = ls
    /\ pc' = "engrave_check"
    /\ UNCHANGED <<cutFile, outFile, temp_engrave_path, result, assembled,
                   engraveRaise, cutGen, cutRaise, cutLines, asmOutcome, outOrig>>
    /\ UNCHANGED <<textVars, asmVars, cfgVars>>

\* ResolveEngrave with a failed engrave generation made fatal
ResolveEngrave_Fatal ==
    /\ pc = "engrave_check"
    /\ \/ \* 454-458: if not success
          /\ ~success
          /\ temp_engrave_path' = "None"
          /\ UNCHANGED <<engraveFile, engraveRaise>>
          /\ pc' = "done" /\ result' = CutFailedResult
          /\ UNCHANGED <<cutFile, outFile, success, assembled, engraveGen,
                         engraveLines, cutGen, cutRaise, cutLines, asmOutcome, outOrig>>
       \/ \* 472-475: an exception while the artifact is inspected
          /\ success
          /\ engraveRaise' = TRUE
          /\ temp_engrave_path' = "None"
          /\ UNCHANGED engraveFile
       \/ \* 459-466: the artifact exists and is empty
          /\ success
          /\ engraveFile.exists /\ is_empty_gcode(engraveFile)
          /\ engraveFile' = unlink(engraveFile)
          /\ temp_engrave_path' = "None"
          /\ UNCHANGED engraveRaise
       \/ \* 467-468: the artifact is kept
          /\ success
          /\ ~(engraveFile.exists /\ is_empty_gcode(engraveFile))
          /\ UNCHANGED <<engraveFile, temp_engrave_path, engraveRaise>>
    /\ IF success
         THEN /\ pc' = "cut_temp"
              /\ UNCHANGED <<cutFile, outFile, success, result, assembled,
                             engraveGen, engraveLines, cutGen, cutRaise,
                             cutLines, asmOutcome, outOrig>>
         ELSE TRUE
    /\ UNCHANGED <<textVars, asmVars, cfgVars>>

\* ResolveEngrave without the discard of an Empty artifact (lines 459-466)
ResolveEngrave_KeepsEmpty ==
    /\ pc = "engrave_check"
    /\ \/ \* 454-458: if not success
          /\ ~success
          /\ temp_engrave_path' = "None"
          /\ UNCHANGED <<engraveFile, engraveRaise>>
       \/ \* 472-475: an exception while the artifact is inspected
          /\ success
          /\ engraveRaise' = TRUE
          /\ temp_engrave_path' = "None"
          /\ UNCHANGED engraveFile
       \/ \* 459-466: the artifact exists and is empty
          /\ success
          /\ engraveFile.exists /\ is_empty_gcode(engraveFile)
          /\ UNCHANGED <<engraveFile, temp_engrave_path, engraveRaise>>
       \/ \* 467-468: the artifact is kept
          /\ success
          /\ ~(engraveFile.exists /\ is_empty_gcode(engraveFile))
          /\ UNCHANGED <<engraveFile, temp_engrave_path, engraveRaise>>
    /\ pc' = "cut_temp"
    /\ UNCHANGED <<cutFile, outFile, success, result, assembled, engraveGen,
                   engraveLines, cutGen, cutRaise, cutLines, asmOutcome, outOrig>>
    /\ UNCHANGED <<textVars, asmVars, cfgVars>>

\* lines 454-475: the engrave artifact is dropped, discarded or kept
ResolveEngrave ==
    /\ pc = "engrave_check"
    /\ \/ \* 454-458: if not success
          /\ ~success
          /\ temp_engrave_path' = "None"
          /\ UNCHANGED <<engraveFile, engraveRaise>>
       \/ \* 472-475: an exception while the artifact is inspected
          /\ success
          /\ engraveRaise' = TRUE
          /\ temp_engrave_path' = "None"
          /\ UNCHANGED engraveFile
       \/ \* 459-466: the artifact exists and is empty
          /\ success
          /\ engraveFile.exists /\ is_empty_gcode(engraveFile)
          /\ engraveFile' = unlink(engraveFile)
          /\ temp_engrave_path' = "None"
          /\ UNCHANGED engraveRaise
       \/ \* 467-468: the artifact is kept
          /\ success
          /\ ~(engraveFile.exists /\ is_empty_gcode(engraveFile))
          /\ UNCHANGED <<engraveFile, temp_engrave_path, engraveRaise>>
    /\ pc' = "cut_temp"
    /\ UNCHANGED <<cutFile, outFile, success, result, assembled, engraveGen,
                   engraveLines, cutGen, cutRaise, cutLines, asmOutcome, outOrig>>
    /\ UNCHANGED <<textVars, asmVars, cfgVars>>

\* lines 486-487: as lines 441-442, outside every try
CreateCutTemp ==
    /\ pc = "cut_temp"
    /\ \/ /\ cutFile' = File(<<>>)
          /\ pc' = "cut_gen"
       \/ /\ pc' = "raised"
          /\ UNCHANGED cutFile
    /\ UNCHANGED <<engraveFile, outFile, temp_engrave_path, success, result,
                   assembled, engraveGen, engraveRaise, engraveLines, cutGen,
                   cutRaise, cutLines, asmOutcome, outOrig>>
    /\ UNCHANGED <<textVars, asmVars, cfgVars>>

\* lines 490-497 with generate_layer_gcode (391-396)
GenerateCut ==
    /\ pc = "cut_gen"
    /\ \/ /\ success' = FALSE
          /\ cutGen' = "fail"
          /\ UNCHANGED <<cutFile, cutLines>>
       \/ \E ls \in GenArtifacts :
          /\ success' = TRUE
          /\ cutGen' = "ok"
          /\ cutFile' = File(ls)
          /\ cutLines' = ls
    /\ pc' = "cut_check"
    /\ UNCHANGED <<engraveFile, outFile, temp_engrave_path, result, assembled,
                   engraveGen, engraveRaise, engraveLines, cutRaise, asmOutcome,
                   outOrig>>
    /\ UNCHANGED <<textVars, asmVars, cfgVars>>

\* CutFailed without the unlink of lines 500-501
CutFailed_KeepsEngrave ==
    /\ ~success
    /\ result' = CutFailedResult
    /\ pc' = "done"
    /\ UNCHANGED <<engraveFile, cutFile, cutRaise>>

\* lines 499-505: if not success
CutFailed ==
    /\ ~success
    /\ engraveFile' = UnlinkEngraveIfSet(temp_engrave_path, engraveFile)
    /\ result' = CutFailedResult
    /\ pc' = "done"
    /\ UNCHANGED <<cutFile, cutRaise>>

\* lines 526-531: an exception while the cut artifact is inspected
CutRaised ==
    /\ success
    /\ cutRaise' = TRUE
    /\ engraveFile' = UnlinkEngraveIfSet(temp_engrave_path, engraveFile)
    /\ cutFile' = UnlinkIfExists(cutFile)
    /\ result' = CutErrorResult
    /\ pc' = "done"

\* lines 506-520: the cut artifact exists and is empty
CutEmpty ==
    /\ success
    /\ cutFile.exists /\ is_empty_gcode(cutFile)
    /\ engraveFile' = UnlinkEngraveIfSet(temp_engrave_path, engraveFile)
    /\ cutFile' = UnlinkIfExists(cutFile)
    /\ result' = CutEmptyResult
    /\ pc' = "done"
    /\ UNCHANGED cutRaise

\* CutKept without the test of line 506: an Empty cut artifact goes on to step 3
CutKept_EvenIfEmpty ==
    /\ success
    /\ pc' = "combine"
    /\ UNCHANGED <<engraveFile, cutFile, result, cutRaise>>

\* lines 521-525: the cut artifact is kept, on to step 3
CutKept ==
    /\ success
    /\ ~(cutFile.exists /\ is_empty_gcode(cutFile))
    /\ pc' = "combine"
    /\ UNCHANGED <<engraveFile, cutFile, result, cutRaise>>

\* lines 501, 508, 510 and 528, 530: an os.unlink raises (the file cannot be
\* deleted).  Raised at 501-510 it reaches the handler of line 526, which calls
\* os.unlink on the same file again; raised there it leaves the function
CutUnlinkRaised ==
    /\ \/ \* the engrave file: line 501, or 508, or 528
          /\ temp_engrave_path = "path" /\ engraveFile.exists
          /\ UNCHANGED engraveFile
       \/ \* the cut file: line 510 or 530, the engrave file is deleted by then
          /\ success /\ cutFile.exists
          /\ engraveFile' = UnlinkEngraveIfSet(temp_engrave_path, engraveFile)
    /\ pc' = "raised"
    /\ UNCHANGED <<cutFile, result, cutRaise>>

\* lines 499-531
ResolveCut ==
    /\ pc = "cut_check"
    /\ (CutFailed \/ CutRaised \/ CutEmpty \/ CutKept \/ CutUnlinkRaised)
    /\ UNCHANGED <<outFile, temp_engrave_path, success, assembled, engraveGen,
                   engraveRaise, engraveLines, cutGen, cutLines, asmOutcome, outOrig>>
    /\ UNCHANGED <<textVars, asmVars, cfgVars>>

\* the prefixes of what combine_gcode_files writes: the destination after a
\* write that failed part-way
Prefixes(ls) == {SubSeq(ls, 1, k) : k \in 0..Len(ls)}

\* lines 538-590: combine_gcode_files, then the cleanup of 553-556 or of 586-589
Combine ==
    /\ pc = "combine"
    /\ LET c == combine_gcode_files(temp_engrave_path, engraveFile, cutFile) IN
       \/ \* 550: the program is written
          /\ ~c.raised
          /\ asmOutcome' = "ok"
          /\ outFile' = File(c.written)
       \/ \* 342 raises: open(output_path, "w") fails, nothing is written
          /\ asmOutcome' = "open_fails"
          /\ outFile' = outFile
       \/ \* 346-357 raise: the destination was truncated and partly written
          /\ asmOutcome' = "write_fails"
          /\ \E w \in Prefixes(c.written) : outFile' = File(w)
    /\ assembled' = assembled + 1
    /\ \/ \* 553-583: cleaned up, return True, None; or 586-590: cleaned up,
          \* return False, "Failed to create combined G-code file: ..."
          /\ engraveFile' = UnlinkEngraveIfSet(temp_engrave_path, engraveFile)
          /\ cutFile' = UnlinkIfExists(cutFile)
          /\ result' = IF asmOutcome' = "ok" THEN SuccessResult
                                             ELSE CombineFailedResult
          /\ pc' = "done"
       \/ \* 554 or 587: os.unlink(temp_engrave_path) raises; raised at 554 it
          \* reaches the handler of line 584, whose os.unlink raises again
          /\ temp_engrave_path = "path" /\ engraveFile.exists
          /\ UNCHANGED <<engraveFile, cutFile, result>>
          /\ pc' = "raised"
       \/ \* 556 or 589: os.unlink(temp_cut_path) raises, likewise
          /\ cutFile.exists
          /\ engraveFile' = UnlinkEngraveIfSet(temp_engrave_path, engraveFile)
          /\ UNCHANGED <<cutFile, result>>
          /\ pc' = "raised"
    /\ UNCHANGED <<temp_engrave_path, success, engraveGen, engraveRaise,
                   engraveLines, cutGen, cutRaise, cutLines, outOrig>>
    /\ UNCHANGED <<textVars, asmVars, cfgVars>>

Init == InitPipe /\ IdleText /\ IdleAsm /\ IdleCfg

Next ==
    \/ CreateEngraveTemp
    \/ GenerateEngrave
    \/ ResolveEngrave
    \/ CreateCutTemp
    \/ GenerateCut
    \/ ResolveCut
    \/ Combine

Spec == Init /\ [][Next]_vars

----------------------------------------------------------------------------
(* The text functions, each applied to an artifact of at most MaxLen lines *)

InitText ==
    /\ IdlePipe /\ IdleAsm /\ IdleCfg
    /\ tPc = "input"
    /\ \E k \in 0..MaxLen, nl \in BOOLEAN :
          \E ls \in [1..k -> Vocab] :
             tFile = File(IF nl THEN Terminated(ls) ELSE Unterminated(ls))
    /\ tEmpty = FALSE
    /\ tLines = <<>>

\* is_empty_gcode(path)
Classify ==
    /\ tPc = "input"
    /\ tEmpty' = is_empty_gcode(tFile)
    /\ tPc' = "classified"
    /\ UNCHANGED <<tFile, tLines, pipeVars, asmVars, cfgVars>>

\* remove_gcode_footer(path)
StripFooter ==
    /\ tPc = "input"
    /\ tLines' = remove_gcode_footer(tFile.lines)
    /\ tPc' = "footer"
    /\ UNCHANGED <<tFile, tEmpty, pipeVars, asmVars, cfgVars>>

\* get_gcode_body_and_footer(path)
StripHeader ==
    /\ tPc = "input"
    /\ tLines' = get_gcode_body_and_footer(tFile.lines)
    /\ tPc' = "header"
    /\ UNCHANGED <<tFile, tEmpty, pipeVars, asmVars, cfgVars>>

\* remove_gcode_footer(path) on the text its previous call returned, written
\* one line per element as line 347 writes it
StripFooterAgain ==
    /\ tPc = "footer"
    /\ tLines' = remove_gcode_footer(WriteLines(tLines))
    /\ tPc' = "footer2"
    /\ UNCHANGED <<tFile, tEmpty, pipeVars, asmVars, cfgVars>>

NextText == Classify \/ StripFooter \/ StripHeader \/ StripFooterAgain

SpecText == InitText /\ [][NextText]_vars

----------------------------------------------------------------------------
(* combine_gcode_files called with any engrave_path and any two files *)

InitAsm ==
    /\ IdleText /\ IdleCfg
    /\ pc = "idle"
    /\ engraveFile \in {NoFile} \cup {File(a) : a \in GenArtifacts}
    /\ \/ cutFile = NoFile
       \/ \E k \in 0..MaxAsmCutLen : \E ls \in [1..k -> GenVocab] :
             cutFile = File(Terminated(ls))
    /\ outFile \in {NoFile, OldProgram}
    /\ outOrig = outFile
    /\ temp_engrave_path = "unset"
    /\ success = FALSE
    /\ result = NoResult
    /\ assembled = 0
    /\ engraveGen = "none"
    /\ engraveRaise = FALSE
    /\ engraveLines = <<>>
    /\ cutGen = "none"
    /\ cutRaise = FALSE
    /\ cutLines = <<>>
    /\ asmOutcome = "none"
    /\ aPc = "call"
    /\ aEngravePath \in {"None", "path"}

\* combine_gcode_files(engrave_path, cut_path, output_path), lines 338-357
CallCombine ==
    /\ aPc = "call"
    /\ LET c == combine_gcode_files(aEngravePath, engraveFile, cutFile) IN
       /\ outFile' = File(c.written)
       /\ aPc' = IF c.raised THEN "raised" ELSE "returned"
    /\ UNCHANGED <<pc, engraveFile, cutFile, temp_engrave_path, success, result,
                   assembled, engraveGen, engraveRaise, engraveLines, cutGen,
                   cutRaise, cutLines, asmOutcome, outOrig, aEngravePath, textVars,
                   cfgVars>>

NextAsm == CallCombine

SpecAsm == InitAsm /\ [][NextAsm]_vars

----------------------------------------------------------------------------
(* validate_config called on a parsed file, and on the generated template *)

InitValidate ==
    /\ IdlePipe /\ IdleText /\ IdleAsm
    /\ cPc = "input"
    /\ \E ng \in 0..MaxKeys : \E ns \in 0..(MaxKeys - ng) :
          \E g \in {x \in {NoneV, IntV(1), ListV(<<>>)} : ng = 0}
                     \cup Tables(GlobalKeys, ng),
             name \in {"engrave", "cut", "other"},
             sec \in {x \in {NoneV, IntV(1)} : ns = 0} \cup Tables(SectionKeys, ns) :
                config = TopLevel(g, name, sec)
    /\ cli_args = NoneV
    /\ header = <<>>
    /\ footer = <<>>
    /\ cOut = Return(NoneV)
    /\ explicit_path = NoneV
    /\ env_var = NoneV
    /\ fsys = <<>>

cfgInputs == <<cli_args, header, footer, explicit_path, env_var, fsys>>

\* config_generate, lines 1106-1107, and the file it wrote parsed by line 665
ConfigGenerate ==
    /\ cPc = "input"
    /\ config' = generate_config_template
    /\ cPc' = "generated"
    /\ UNCHANGED <<cOut, cfgInputs, pipeVars, textVars, asmVars>>

\* validate_config(config)
ValidateConfig ==
    /\ cPc \in {"input", "generated"}
    /\ cOut' = validate_config(config)
    /\ cPc' = "validated"
    /\ UNCHANGED <<config, cfgInputs, pipeVars, textVars, asmVars>>

NextValidate == ConfigGenerate \/ ValidateConfig

SpecValidate == InitValidate /\ [][NextValidate]_vars

----------------------------------------------------------------------------
(* merge_config_with_cli, config_to_combine_config and the configuration   *)
(* part of main, called with one setting varied over the tiers             *)

\* the [global] key and the layer table that feed a setting at the tiers
\* below the CLI
TierKey(f) ==
    CASE f \in {"engrave_cutting_speed", "cut_cutting_speed"} -> "cutting_speed"
      [] f \in {"engrave_power", "cut_power"}                 -> "power"
      [] OTHER                                                -> f

TierLayer(f) ==
    CASE f \in {"engrave_cutting_speed", "engrave_power"} -> "engrave"
      [] f \in {"cut_cutting_speed", "cut_power"}         -> "cut"
      [] OTHER                                            -> "None"

InitResolve ==
    /\ IdlePipe /\ IdleText /\ IdleAsm
    /\ cPc = "input"
    /\ \E f \in DOMAIN CombineConfigDefaults :
          /\ \/ config = NoneV
             \/ \E g \in OneKey(TierKey(f), IF f \in {"header", "footer"}
                                               THEN ListValues ELSE CfgValues),
                   sec \in IF TierLayer(f) = "None" THEN {NoneV}
                           ELSE {NoneV} \cup OneKey(TierKey(f), CfgValues) :
                      /\ config = TopLevel(g, TierLayer(f), sec)
                      /\ validate_config(config) = Return(NoneV)
          /\ IF f \in {"header", "footer"}
               THEN cli_args = Dict(<<>>, <<>>)
               ELSE cli_args \in OneKey(f, CfgValues \cup {NoneV})
          /\ header \in IF f = "header" THEN CliLists ELSE {<<>>}
          /\ footer \in IF f = "footer" THEN CliLists ELSE {<<>>}
    /\ cOut = Return(NoneV)
    /\ explicit_path = NoneV
    /\ env_var = NoneV
    /\ fsys = <<>>

\* merge_config_with_cli(config, cli_args) on a loaded file
MergeConfigWithCli ==
    /\ cPc = "input"
    /\ config # NoneV
    /\ cOut' = merge_config_with_cli(config, cli_args)
    /\ cPc' = "merged"
    /\ UNCHANGED <<config, cfgInputs, pipeVars, textVars, asmVars>>

\* config_to_combine_config(config, layer_name, cli_args) on a loaded file
ConfigToCombineConfig ==
    /\ cPc = "input"
    /\ config # NoneV
    /\ \E layer_name \in {"engrave", "cut"} :
          /\ cOut' = config_to_combine_config(config, layer_name, cli_args)
          /\ cPc' = IF layer_name = "engrave" THEN "converted engrave"
                                              ELSE "converted cut"
    /\ UNCHANGED <<config, cfgInputs, pipeVars, textVars, asmVars>>

\* main, lines 1351-1429, called by click with the options of cli_args given
\* on the command line (click rejects a value that is not of the option's type)
MainConfig ==
    /\ cPc = "input"
    /\ \A k \in DOMAIN cli_args.kv : click_accepts(k, cli_args.kv[k])
    /\ cOut' = main_config(config, click_parameters(cli_args), header, footer)
    /\ cPc' = "resolved"
    /\ UNCHANGED <<config, cfgInputs, pipeVars, textVars, asmVars>>

NextResolve == MergeConfigWithCli \/ ConfigToCombineConfig \/ MainConfig

SpecResolve == InitResolve /\ [][NextResolve]_vars

----------------------------------------------------------------------------
(* find_config_file and load_config, for any --config option, environment  *)
(* variable and files on disk                                              *)

\* what a file at one of the three paths may hold: a text that is no TOML, a
\* file without [global] table, a valid file, the generated template
FileContents == {Str("["), Dict(<<>>, <<>>), TopLevel(Dict(<<>>, <<>>), "None", NoneV),
                 generate_config_template}

InitLookup ==
    /\ IdlePipe /\ IdleText /\ IdleAsm
    /\ cPc = "input"
    /\ config = NoneV
    /\ cli_args = NoneV
    /\ header = <<>>
    /\ footer = <<>>
    /\ cOut = Return(NoneV)
    /\ explicit_path \in {NoneV, Str(""), Str("explicit.toml")}
    /\ env_var \in {NoneV, Str(""), Str("env.toml")}
    /\ fsys \in [{"explicit.toml", "config.toml", "env.toml"} ->
                    {NoneV} \cup FileContents]

\* find_config_file(explicit_path)
FindConfigFile ==
    /\ cPc = "input"
    /\ cOut' = Return(find_config_file(explicit_path, env_var, fsys))
    /\ cPc' = "found"
    /\ UNCHANGED <<config, cfgInputs, pipeVars, textVars, asmVars>>

\* load_config(explicit_path): line 653 when tomllib is None, else lines 655-668
LoadConfig ==
    /\ cPc = "input"
    /\ \/ cOut' = Raise("ImportError", "")
       \/ cOut' = load_config(explicit_path, env_var, fsys)
    /\ cPc' = "loaded"
    /\ UNCHANGED <<config, cfgInputs, pipeVars, textVars, asmVars>>

NextLookup == FindConfigFile \/ LoadConfig

SpecLookup == InitLookup /\ [][NextLookup]_vars

----------------------------------------------------------------------------
(* generate_layer_gcode for the two layers of one CombineConfig, and the    *)
(* footer removal applied to the artifact the generator writes             *)

\* the characters of a str, as written to a text file
chars(s) == [i \in 1..Len(s) |-> SubSeq(s, i, i)]

\* the tool-off commands a CombineConfig may hold
ToolOffCommands == {"M5;", "M5", "M5 S0", "M05"}

\* convert_svg_to_gcode(svg_path, output_path, conversion_config): the artifact
\* written for a layer with one path.  Header: positioning mode and unit
\* declaration; body: the laser-on command and a move; footer: the tool-off
\* command and, with move_to_origin_end, the return to the origin
convert_svg_to_gcode(conversion_config) ==
    Terminated(
        << L_G90,
           IF conversion_config.unit = Str("mm") THEN P_G21 ELSE P_G20,
           chars(conversion_config.tool_power_command.s),
           L_G1_cut,
           chars(conversion_config.tool_off_command.s) >>
        \o (IF conversion_config.move_to_origin_end = BoolV(TRUE)
              THEN <<L_G0_origin>> ELSE <<>>))

InitLayer ==
    /\ IdlePipe /\ IdleText /\ IdleAsm
    /\ cPc = "input"
    /\ \E off \in ToolOffCommands, origin \in BOOLEAN, u \in {"mm", "in"},
          ep \in {IntV(75), IntV(0)}, cp \in {IntV(255), IntV(75)} :
             config = CombineConfig([tool_off_command |-> Str(off),
                                     move_to_origin_end |-> BoolV(origin),
                                     unit |-> Str(u),
                                     engrave_power |-> ep,
                                     cut_power |-> cp]).value
    /\ cli_args = NoneV
    /\ header = <<>>
    /\ footer = <<>>
    /\ cOut = Return(NoneV)
    /\ explicit_path = NoneV
    /\ env_var = NoneV
    /\ fsys = <<>>

\* line 392 as reached from lines 445-452 (engrave) and then from lines
\* 490-497 (cut)
ToConversionConfig ==
    /\ \/ /\ cPc = "input"
          /\ cOut' = Return(to_conversion_config(config, "engrave",
                                                 config.engrave_cutting_speed,
                                                 config.engrave_power))
          /\ cPc' = "engrave"
       \/ /\ cPc = "engrave"
          /\ cOut' = Return(to_conversion_config(config, "cut",
                                                 config.cut_cutting_speed,
                                                 config.cut_power))
          /\ cPc' = "cut"
    /\ UNCHANGED <<config, cfgInputs, pipeVars, textVars, asmVars>>

\* line 393: the generator writes the artifact of the layer
ConvertSvgToGcode ==
    /\ cPc \in {"engrave", "cut"}
    /\ tPc = "idle"
    /\ tFile' = File(convert_svg_to_gcode(cOut.value))
    /\ tPc' = "input"
    /\ UNCHANGED <<tEmpty, tLines, cfgVars, pipeVars, asmVars>>

NextLayer == ToConversionConfig \/ ConvertSvgToGcode \/ StripFooter

SpecLayer == InitLayer /\ [][NextLayer]_vars

----------------------------------------------------------------------------
(* Vocabulary of the properties *)

\* the three-line separator banner, as written to the destination
Banner == <<WriteLine(separator), WriteLine(layer_sep), WriteLine(separator_end)>>

\* the positions of a text at which the three-line banner starts
BannerAt(ls) == {i \in 1..Len(ls) : i + 2 <= Len(ls) /\ SubSeq(ls, i, i + 2) = Banner}

\* no line of the text is a line of the banner
NoBannerLine(ls) == \A i \in 1..Len(ls) : ls[i] \notin {Banner[1], Banner[2]}

\* the run has returned
Returned == pc = "done" /\ result.returned

\* generate_layer_gcode("engrave") returned True, the inspection did not raise
\* and the artifact it wrote is classified NonEmpty
EngraveNonEmpty ==
    engraveGen = "ok" /\ ~engraveRaise /\ ~is_empty_gcode(File(engraveLines))

\* the same for the cut layer, and for a cut artifact classified Empty
CutNonEmpty == cutGen = "ok" /\ ~cutRaise /\ ~is_empty_gcode(File(cutLines))
CutClassifiedEmpty == cutGen = "ok" /\ ~cutRaise /\ is_empty_gcode(File(cutLines))

\* the cut-only program: the header-stripped cut artifact and nothing else
CutOnlyProgram == WriteLines(get_gcode_body_and_footer(cutLines))

----------------------------------------------------------------------------
(* C1-C5: the orchestrator (specification Spec) *)

\* C1: when combine_cut_engrave has returned, neither of the two temporary
\* files it created exists any more, whatever the engrave, cut and assembly
\* outcomes were.
C1_NoTempFileRemains ==
    Returned => (~engraveFile.exists /\ ~cutFile.exists)

\* C2: if generation of the cut artifact fails, the run returns a failure with
\* an error message, the assembler was never called, the destination is
\* untouched, and an engrave artifact that survived step 1 no longer exists.
C2_CutGenerationFailureIsFatal ==
    (Returned /\ cutGen = "fail") =>
        /\ ~result.ok
        /\ result.msg # "None"
        /\ assembled = 0
        /\ outFile = outOrig
        /\ (temp_engrave_path = "path" => ~engraveFile.exists)

\* C2 witness: a run whose cut generation failed after a NonEmpty engrave
\* artifact had been kept.
C2_Witness ==
    Returned /\ cutGen = "fail" /\ temp_engrave_path = "path" /\ EngraveNonEmpty

\* C3: if the cut artifact is generated but classified Empty, the run returns
\* a failure carrying the remediation message, the assembler was never
\* called, and both temporary files (engrave and cut) have been deleted,
\* whatever the engrave outcome was.
C3_EmptyCutCleansUpEverything ==
    (Returned /\ CutClassifiedEmpty) =>
        /\ ~result.ok
        /\ {"layer exists", "convert objects to paths", "layer names case-sensitive"}
               \subseteq result.advice
        /\ assembled = 0
        /\ ~engraveFile.exists
        /\ ~cutFile.exists

\* C4: no engrave outcome is fatal: every run reaches cut generation, and it
\* returns success exactly when the cut artifact is generated and NonEmpty and
\* the assembly succeeds, and then returns (True, None).
C4_EngraveNeverFatal ==
    Returned =>
        /\ cutGen # "none"
        /\ result.ok <=> (CutNonEmpty /\ asmOutcome = "ok")
        /\ result.ok => result = SuccessResult

\* C4 witness: a successful run whose engrave generation failed.
C4_Witness == Returned /\ result.ok /\ engraveGen = "fail"

\* C5: on a successful run the written program contains the banner if and
\* only if the engrave artifact was generated and classified NonEmpty;
\* otherwise the written program is exactly the cut-only program.
C5_BannerIffEngraveNonEmpty ==
    (Returned /\ result.ok) =>
        /\ (BannerAt(outFile.lines) # {}) <=> EngraveNonEmpty
        /\ ~EngraveNonEmpty =>
               (outFile.lines = CutOnlyProgram /\ NoBannerLine(outFile.lines))

\* C5 witness: a successful run whose engrave artifact held lines but was
\* classified Empty, and which wrote a non-empty cut-only program.
C5_Witness ==
    /\ Returned /\ result.ok
    /\ engraveGen = "ok" /\ ~engraveRaise
    /\ engraveLines # <<>> /\ is_empty_gcode(File(engraveLines))
    /\ outFile.lines # <<>>

----------------------------------------------------------------------------
(* C6-C7: combine_gcode_files (specification SpecAsm) *)

\* C6: called without an engrave artifact (engrave_path None, or a path that
\* does not exist), combine_gcode_files writes exactly the lines of
\* get_gcode_body_and_footer(cut), in order, and no banner line.
C6_AssembleWithoutEngrave ==
    (aPc = "returned" /\ (aEngravePath = "None" \/ ~engraveFile.exists)) =>
        LET body == get_gcode_body_and_footer(cutFile.lines) IN
        /\ Len(outFile.lines) = Len(body)
        /\ \A i \in 1..Len(body) : outFile.lines[i] = body[i] \o <<NL>>
        /\ NoBannerLine(outFile.lines)

\* C6 witness: a call whose engrave_path names a file that does not exist and
\* whose cut artifact has a body after its unit declaration.
C6_Witness ==
    /\ aPc = "returned"
    /\ aEngravePath = "path" /\ ~engraveFile.exists
    /\ outFile.lines # <<>>

\* C7: called with an engrave artifact, combine_gcode_files writes the lines of
\* remove_gcode_footer(engrave), a blank line, the three banner lines, a blank
\* line, then the lines of get_gcode_body_and_footer(cut); the banner occurs
\* exactly once.
C7_AssembleWithEngrave ==
    (aPc = "returned" /\ aEngravePath = "path" /\ engraveFile.exists) =>
        LET e == remove_gcode_footer(engraveFile.lines)
            c == get_gcode_body_and_footer(cutFile.lines)
            o == outFile.lines
            n == Len(e)
        IN  /\ Len(o) = n + 5 + Len(c)
            /\ \A i \in 1..n : o[i] = e[i] \o <<NL>>
            /\ o[n + 1] = <<NL>>
            /\ SubSeq(o, n + 2, n + 4) = Banner
            /\ o[n + 5] = <<NL>>
            /\ \A i \in 1..Len(c) : o[n + 5 + i] = c[i] \o <<NL>>
            /\ BannerAt(o) = {n + 2}

\* C7 witness: a call with an engrave artifact of which a line survives the
\* footer removal and a cut artifact of which a line survives the header removal.
C7_Witness ==
    /\ aPc = "returned"
    /\ aEngravePath = "path" /\ engraveFile.exists
    /\ remove_gcode_footer(engraveFile.lines) # <<>>
    /\ Len(remove_gcode_footer(engraveFile.lines)) < Len(engraveFile.lines)
    /\ get_gcode_body_and_footer(cutFile.lines) # <<>>

----------------------------------------------------------------------------
(* C8, C10: the text functions (specification SpecText) *)

IsDigit(c) == c \in {"0", "1", "2", "3", "4", "5", "6", "7", "8", "9"}

\* the line begins with a linear or arc motion code: the word G1, G2 or G3
BeginsWithMotion(st) ==
    /\ Len(st) >= 2
    /\ st[1] = "G"
    /\ st[2] \in {"1", "2", "3"}
    /\ Len(st) >= 3 => ~IsDigit(st[3])

\* the line begins with the laser-power-on code
BeginsWithLaserOn(st) == Len(st) >= 4 /\ SubSeq(st, 1, 4) = <<"M", "3", " ", "S">>

\* the line carries the word with this letter
HasWord(st, letter) == \E i \in 1..Len(st) : st[i] = letter

\* a feed-rate-only directive: a motion code with a feed rate and no coordinates
FeedRateOnly(st) ==
    /\ BeginsWithMotion(st)
    /\ HasWord(st, "F")
    /\ \A w \in {"X", "Y", "Z", "I", "J"} : ~HasWord(st, w)

\* C8: is_empty_gcode returns False (NonEmpty) if and only if some line begins
\* with a motion code or the laser-on code and is not a feed-rate-only
\* directive; a motion line with coordinates counts wherever its feed-rate
\* word stands.
C8_NonEmptyIffCuttingLine ==
    tPc = "classified" =>
        (~tEmpty <=> \E i \in 1..Len(tFile.lines) :
                        LET st == strip(tFile.lines[i]) IN
                        /\ BeginsWithMotion(st) \/ BeginsWithLaserOn(st)
                        /\ ~FeedRateOnly(st))

\* the line is a laser-off command
IsLaserOff(line) == strip(line) \in {<<"M", "5">>, <<"M", "5", ";">>}

\* the line is blank
IsBlank(line) == strip(line) = <<>>

\* the line is a rapid move to the origin, X0 Y0 and optionally Z0
IsOriginMove(line) ==
    strip(line) \in {<<"G", "0", " ", "X", "0", " ", "Y", "0">>,
                     <<"G", "0", " ", "X", "0", " ", "Y", "0", " ", "Z", "0">>}

\* the line begins with the text of a rapid move to X0 Y0
BeginsWithOriginMove(line) ==
    LET st == strip(line) IN
    Len(st) >= 8 /\ SubSeq(st, 1, 8) = <<"G", "0", " ", "X", "0", " ", "Y", "0">>

\* the lines of the text outside the set D of positions, in order, each
\* without its line terminator
KeptLines(lines, D) ==
    LET K == {i \in 1..Len(lines) : i \notin D}
    IN  [n \in 1..Cardinality(K) |->
            rstrip_nl(lines[CHOOSE i \in K : Cardinality({j \in K : j <= i}) = n])]

\* the first laser-off line and the run of blank and origin-move lines after it
FirstFooter(lines) ==
    LET offs == {i \in 1..Len(lines) : IsLaserOff(lines[i])} IN
    IF offs = {} THEN {}
    ELSE LET f == CHOOSE i \in offs : \A j \in offs : i <= j IN
         {f} \cup {i \in (f + 1)..Len(lines) :
                      \A k \in (f + 1)..i : IsBlank(lines[k]) \/ IsOriginMove(lines[k])}

EveryFooter(lines) ==
    {i \in 1..Len(lines) :
        \/ IsLaserOff(lines[i])
        \/ \E j \in 1..(i - 1) :
              /\ IsLaserOff(lines[j])
              /\ \A k \in (j + 1)..i :
                    IsBlank(lines[k]) \/ BeginsWithOriginMove(lines[k])}

----------------------------------------------------------------------------
(* C11-C12: the text functions (specification SpecText) *)

\* C11: remove_gcode_footer is idempotent: applied to the text a first call
\* returned, it returns that text unchanged.
C11_StripFooterIdempotent ==
    [][(tPc = "footer" /\ tPc' = "footer2") => tLines' = tLines]_vars

\* C11 witness: a second call on a text from which the first call removed a
\* footer and in which it kept a line.
C11_Witness ==
    /\ tPc = "footer2"
    /\ tLines # <<>>
    /\ Len(tLines) < Len(tFile.lines)
    /\ \E i \in 1..Len(tFile.lines) : IsLaserOff(tFile.lines[i])

\* the line is a unit declaration: G21 or G20, with or without a semicolon
IsUnitDeclaration(line) ==
    strip(line) \in {<<"G", "2", "1">>, <<"G", "2", "1", ";">>,
                     <<"G", "2", "0">>, <<"G", "2", "0", ";">>}

\* the positions up to and including the first unit declaration
FirstHeader(lines) ==
    LET units == {i \in 1..Len(lines) : IsUnitDeclaration(lines[i])} IN
    IF units = {} THEN {}
    ELSE 1..(CHOOSE i \in units : \A j \in units : i <= j)

\* C12: on an artifact with a unit declaration, get_gcode_body_and_footer
\* discards the lines up to and including the first unit declaration and
\* returns every line after it, in order, any later unit declaration and any
\* footer included.
C12_KeepsAllAfterFirstUnit ==
    (tPc = "header" /\ FirstHeader(tFile.lines) # {}) =>
        tLines = KeptLines(tFile.lines, FirstHeader(tFile.lines))

----------------------------------------------------------------------------
(* C13: the footer of the cut artifact (specification SpecAsm) *)

\* the position at which the footer of an artifact starts: a laser-off line
\* after the first unit declaration, followed to the end of the artifact by
\* blank and return-to-origin lines only; 0 when the artifact has no footer
FooterStart(lines) ==
    LET F == {f \in 1..Len(lines) :
                 /\ IsLaserOff(lines[f])
                 /\ \E u \in 1..(f - 1) : IsUnitDeclaration(lines[u])
                 /\ \A k \in (f + 1)..Len(lines) :
                       IsBlank(lines[k]) \/ IsOriginMove(lines[k])}
    IN  IF F = {} THEN 0 ELSE CHOOSE f \in F : TRUE

\* C13: the footer is removed from the engrave artifact only: the footer of
\* the cut artifact (its laser-off line and the blank and return-to-origin
\* lines after it) stands unchanged at the end of every program written, with
\* or without an engrave part.
C13_CutFooterKept ==
    (aPc = "returned" /\ FooterStart(cutFile.lines) # 0) =>
        LET c == cutFile.lines
            o == outFile.lines
            n == Len(c) - FooterStart(c) + 1
        IN  /\ Len(o) >= n
            /\ SubSeq(o, Len(o) - n + 1, Len(o)) = SubSeq(c, FooterStart(c), Len(c))
            /\ IsLaserOff(o[Len(o) - n + 1])

\* C13 witness: a program with an engrave part whose footer was removed and a
\* cut artifact whose footer is a laser-off line and a return to the origin.
C13_Witness ==
    /\ aPc = "returned"
    /\ aEngravePath = "path" /\ engraveFile.exists
    /\ Len(remove_gcode_footer(engraveFile.lines)) < Len(engraveFile.lines)
    /\ FooterStart(cutFile.lines) # 0
    /\ FooterStart(cutFile.lines) < Len(cutFile.lines)

----------------------------------------------------------------------------
(* C17, C20: validate_config (specification SpecValidate) *)

\* the value has the type the table asks for, as the configuration file
\* types it: a boolean is neither an integer nor a number
OfType(v, T) ==
    CASE T = "str"    -> v.t = "str"
      [] T = "int"    -> v.t = "int"
      [] T = "number" -> v.t \in {"int", "float"}
      [] T = "bool"   -> v.t = "bool"

\* a value of the right type lies in the domain the table asks for
InDomain(v, e) ==
    CASE e.constraint = "list"   -> v.s \in e.list
      [] e.constraint = "x > 0"  -> v.n > 0
      [] e.constraint = "x >= 0" -> v.n >= 0
      [] e.constraint = "None"   -> TRUE

\* the keys and sections of a parsed file that make it invalid
Offending(cfg) ==
    (IF "global" \notin DOMAIN cfg.kv THEN {"global"}
     ELSE {validations[i].key : i \in
             {j \in 1..Len(validations) :
                 /\ validations[j].key \in DOMAIN cfg.kv["global"].kv
                 /\ LET v == cfg.kv["global"].kv[validations[j].key] IN
                    ~OfType(v, validations[j].type) \/ ~InDomain(v, validations[j])}})
    \cup {name \in DOMAIN cfg.kv \ {"global"} :
            LET sec == cfg.kv[name] IN
            \/ sec.t # "dict"
            \/ /\ "cutting_speed" \in DOMAIN sec.kv
               /\ ~(OfType(sec.kv["cutting_speed"], "number")
                      /\ sec.kv["cutting_speed"].n > 0)
            \/ /\ "power" \in DOMAIN sec.kv
               /\ ~(/\ OfType(sec.kv["power"], "int")
                     /\ 0 <= sec.kv["power"].n
                     /\ sec.kv["power"].n <= 255)}

\* C17: on a parsed file whose "global" entry is absent or a table,
\* validate_config raises ValueError naming an offending key or section
\* exactly when the file has no global section, or a recognized global key
\* of the wrong type or outside its domain, or another top-level key that is
\* not a table or whose cutting_speed is not a positive number or whose power
\* is not an integer in [0,255]; otherwise it returns without error.
C17_FailsExactlyOnInvalidConfig ==
    (/\ cPc = "validated"
     /\ "global" \in DOMAIN config.kv => config.kv["global"].t = "dict") =>
        IF Offending(config) # {}
          THEN cOut.raised = "ValueError" /\ cOut.named \in Offending(config)
          ELSE cOut = Return(NoneV)

\* C20: the configuration written by the template generator, parsed, passes
\* validate_config without error.
C20_TemplateIsValid ==
    (cPc = "validated" /\ config = generate_config_template) => cOut = Return(NoneV)

\* C20 witness: validate_config has returned on the parsed template, which
\* holds the global section and the cut and engrave sections.
C20_Witness ==
    /\ cPc = "validated"
    /\ config = generate_config_template
    /\ {"global", "cut", "engrave"} \subseteq DOMAIN config.kv
    /\ config.kv["cut"].kv["power"] = IntV(255)

----------------------------------------------------------------------------
(* C14-C16, C18: the resolved configuration (specification SpecResolve) *)

\* the tiers of a setting: a CLI override is supplied; the [global] table of
\* the file holds the key; the layer table of the file holds the key
Supplied(f) == f \in DOMAIN cli_args.kv /\ cli_args.kv[f] # NoneV

InGlobal(key) ==
    /\ config # NoneV
    /\ key \in DOMAIN config.kv["global"].kv

InLayer(layer, key) ==
    /\ config # NoneV
    /\ layer \in DOMAIN config.kv
    /\ key \in DOMAIN config.kv[layer].kv

\* the settings that are not per-layer and are not the two line lists
GlobalFields ==
    DOMAIN CombineConfigDefaults
        \ {"engrave_cutting_speed", "engrave_power", "cut_cutting_speed", "cut_power",
            "header", "footer"}

\* C14: for every global field, merge_config_with_cli yields the CLI override
\* if one is supplied, else the value of the file's [global] table if the key
\* is present, else the built-in default.
C14_GlobalFieldPrecedence ==
    cPc = "merged" =>
        /\ cOut.raised = "None"
        /\ \A f \in GlobalFields :
              cOut.value[f] =
                  IF Supplied(f) THEN cli_args.kv[f]
                  ELSE IF InGlobal(f) THEN config.kv["global"].kv[f]
                  ELSE CombineConfigDefaults[f]

\* C14 witness: a global field set in the file and supplied on the CLI with
\* another value, resolved to the CLI value.
C14_Witness ==
    /\ cPc = "merged"
    /\ \E f \in GlobalFields :
          /\ Supplied(f) /\ InGlobal(f)
          /\ cli_args.kv[f] # config.kv["global"].kv[f]
          /\ config.kv["global"].kv[f] # CombineConfigDefaults[f]
          /\ cOut.value[f] = cli_args.kv[f]

\* the four-tier value of a per-layer setting
FourTier(f) ==
    IF Supplied(f) THEN cli_args.kv[f]
    ELSE IF InLayer(TierLayer(f), TierKey(f)) THEN config.kv[TierLayer(f)].kv[TierKey(f)]
    ELSE IF InGlobal(TierKey(f)) THEN config.kv["global"].kv[TierKey(f)]
    ELSE CombineConfigDefaults[f]

\* C15: for each layer and each of cutting_speed and power, the resolved
\* value is the CLI override for that layer if supplied, else the value of the
\* layer's table if present, else the value of the [global] table if present,
\* else the built-in default; for merge_config_with_cli on both layers, for
\* config_to_combine_config on the layer it is called for.
C15_LayerFieldPrecedence ==
    /\ cPc = "merged" =>
          /\ cOut.raised = "None"
          /\ \A f \in {"engrave_cutting_speed", "engrave_power",
                        "cut_cutting_speed", "cut_power"} : cOut.value[f] = FourTier(f)
    /\ cPc = "converted engrave" =>
          /\ cOut.raised = "None"
          /\ \A f \in {"engrave_cutting_speed", "engrave_power"} :
                cOut.value[f] = FourTier(f)
    /\ cPc = "converted cut" =>
          /\ cOut.raised = "None"
          /\ \A f \in {"cut_cutting_speed", "cut_power"} : cOut.value[f] = FourTier(f)

\* C16: the header and the footer of the configuration main resolves: a
\* non-empty CLI list replaces the list of the file entirely; with an empty
\* CLI list the list of the file stays; with neither the list is empty.
C16_HeaderFooterLists ==
    cPc = "resolved" =>
        /\ cOut.raised = "None"
        /\ \A f \in {"header", "footer"} :
              LET from_cli == IF f = "header" THEN header ELSE footer IN
              cOut.value[f] =
                  IF from_cli # <<>> THEN ListV(from_cli)
                  ELSE IF InGlobal(f) /\ config.kv["global"].kv[f].t = "list"
                         THEN config.kv["global"].kv[f]
                  ELSE ListV(<<>>)

\* C16 witness: a file with a header of two lines and a --header-file of one
\* line; the resolved header is the one line of the CLI.
C16_Witness ==
    /\ cPc = "resolved"
    /\ InGlobal("header")
    /\ config.kv["global"].kv["header"] = ListV(<<"G90", "G21">>)
    /\ Len(header) = 1
    /\ cOut.value.header = ListV(header)

\* a number in a range
IsNumber(v) == v.t \in {"int", "float"}
Positive(v) == IsNumber(v) /\ v.n > 0

\* C18: every configuration main resolves satisfies the invariants of the
\* data model: powers in [0,255]; speeds, bed dimensions, scaling factor, pass
\* depth and tolerance > 0; dwell time >= 0; pass count >= 1; unit and
\* machine origin in their enumerations.
C18_ResolvedInvariants ==
    cPc = "resolved" =>
        /\ cOut.raised = "None"
        /\ LET c == cOut.value IN
           /\ \A f \in {"engrave_power", "cut_power"} :
                 IsNumber(c[f]) /\ 0 <= c[f].n /\ c[f].n <= 255 * c[f].d
           /\ \A f \in {"travel_speed", "engrave_cutting_speed", "cut_cutting_speed",
                         "bed_width", "bed_height", "scaling_factor", "pass_depth",
                         "approximation_tolerance"} : Positive(c[f])
           /\ IsNumber(c.dwell_time) /\ c.dwell_time.n >= 0
           /\ c.passes.t = "int" /\ c.passes.n >= 1
           /\ c.unit \in {Str("mm"), Str("in")}
           /\ c.machine_origin \in {Str("bottom-left"), Str("center"), Str("top-left")}

----------------------------------------------------------------------------
(* C19: the lookup of the configuration file (specification SpecLookup) *)

\* a path is given (None and the empty string name no path)
Given(p) == p # NoneV /\ p # Str("")

\* the file at the path exists
OnDisk(p) == fsys[p.s] # NoneV

\* the path the lookup order of the specification selects, None for none
LookupOrder ==
    IF Given(explicit_path)
      THEN (IF OnDisk(explicit_path) THEN explicit_path ELSE NoneV)
    ELSE IF OnDisk(Str("config.toml")) THEN Str("config.toml")
    ELSE IF Given(env_var) /\ OnDisk(env_var) THEN env_var
    ELSE NoneV

\* C19: an explicit path is used alone and must exist (a missing explicit
\* path gives FileNotFoundError, with no fallback); otherwise config.toml of
\* the working directory if it exists; otherwise the path of the environment
\* variable if set and existing; otherwise no file. load_config reads the
\* file found.
C19_LookupOrder ==
    /\ cPc = "found" => cOut = Return(LookupOrder)
    /\ (cPc = "loaded" /\ cOut.raised # "ImportError") =>
          /\ cOut.raised = "FileNotFoundError" <=> LookupOrder = NoneV
          /\ cOut.raised = "None" => cOut.value = fsys[LookupOrder.s]

\* C19 witness: load_config with an explicit path that does not exist while
\* both other sources hold a valid file: FileNotFoundError.
C19_Witness ==
    /\ cPc = "loaded"
    /\ explicit_path = Str("explicit.toml") /\ ~OnDisk(explicit_path)
    /\ fsys["config.toml"] = TopLevel(Dict(<<>>, <<>>), "None", NoneV)
    /\ env_var = Str("env.toml") /\ fsys["env.toml"] = generate_config_template
    /\ cOut.raised = "FileNotFoundError"

----------------------------------------------------------------------------
(* C9: boilerplate-only artifacts (specification Spec) *)

\* header lines (positioning mode, laser-off, unit declaration) and footer
\* lines (laser-off, rapid move to the origin)
IsBoilerplateLine(line) ==
    \/ strip(line) \in {<<"G", "9", "0">>, <<"G", "2", "1">>, <<"G", "2", "1", ";">>,
                        <<"G", "2", "0">>, <<"G", "2", "0", ";">>}
    \/ IsLaserOff(line)
    \/ IsOriginMove(line)

Boilerplate(lines) == \A i \in 1..Len(lines) : IsBoilerplateLine(lines[i])

\* C9: an artifact of boilerplate lines only is classified Empty; so an engrave
\* layer that yields only boilerplate is dropped and the run goes on cut-only,
\* and a cut layer that yields only boilerplate is fatal.
C9_BoilerplateIsEmpty ==
    Returned =>
        /\ (engraveGen = "ok" /\ Boilerplate(engraveLines)) =>
              /\ is_empty_gcode(File(engraveLines))
              /\ temp_engrave_path = "None"
              /\ result.ok => outFile.lines = CutOnlyProgram
        /\ (cutGen = "ok" /\ Boilerplate(cutLines)) =>
              /\ is_empty_gcode(File(cutLines))
              /\ ~result.ok
              /\ assembled = 0
              /\ ~cutRaise => result = CutEmptyResult

----------------------------------------------------------------------------
(* C21, C23-C25: the orchestrator (specification Spec) *)

\* C21: every failure inside the pipeline becomes a typed result: whatever the
\* outcomes (temp-file creation, generation, inspection, deletion of a temp
\* file, assembly, write), no exception leaves combine_cut_engrave, and the
\* pair it returns has error_message None exactly when success is True.
C21_EveryFailureIsTypedResult ==
    /\ pc # "raised"
    /\ Returned => (result.ok <=> result.msg = "None")

\* C23: the steps of a run occur in a fixed order.  The cut artifact is
\* generated only after the engrave artifact has been generated, inspected and
\* resolved (kept when NonEmpty, dropped otherwise); the assembler is called at
\* most once, and only after the cut artifact has been generated and
\* classified NonEmpty; the written program holds the engrave lines, then the
\* banner, then the cut lines.
C23_FixedStepOrder ==
    /\ cutGen # "none" =>
           /\ engraveGen # "none"
           /\ temp_engrave_path \in {"None", "path"}
           /\ temp_engrave_path = "path" <=> EngraveNonEmpty
    /\ assembled <= 1
    /\ assembled = 1 => CutNonEmpty
    /\ asmOutcome = "ok" =>
           LET o == outFile.lines
               e == WriteLines(remove_gcode_footer(engraveLines))
           IN  IF EngraveNonEmpty
                 THEN /\ BannerAt(o) = {Len(e) + 2}
                      /\ SubSeq(o, 1, Len(e)) = e
                      /\ SubSeq(o, Len(e) + 6, Len(o)) = CutOnlyProgram
                 ELSE /\ BannerAt(o) = {}
                      /\ o = CutOnlyProgram

\* C23 witness: a successful run that wrote engrave lines before the banner
\* and cut lines after it.
C23_Witness ==
    /\ Returned /\ result.ok /\ assembled = 1
    /\ EngraveNonEmpty
    /\ remove_gcode_footer(engraveLines) # <<>>
    /\ CutOnlyProgram # <<>>

\* C24: a run that returns a failure leaves the destination file as it was
\* before the run: not created, not truncated, not partly written.
C24_FailureLeavesDestination ==
    (Returned /\ ~result.ok) => outFile = outOrig

\* a cutting-motion line: a line is_empty_gcode counts, the unit declaration
\* aside
CuttingMotion(line) == IsCuttingLine(line) /\ ~IsUnitDeclaration(line)

\* the cut section of a written program: what follows the banner and its
\* blank line, the whole program when there is no banner
CutSection(o) ==
    IF BannerAt(o) = {} THEN o
    ELSE LET b == CHOOSE i \in BannerAt(o) : TRUE IN SubSeq(o, b + 4, Len(o))

\* C25: when the run returns success, every cutting-motion line of the cut
\* artifact stands in the cut section of the written program, in its original
\* order, whether or not the artifact holds a unit declaration and wherever
\* it stands.
C25_CutSectionWritten ==
    (Returned /\ result.ok) =>
        SelectSeq(CutSection(outFile.lines), CuttingMotion)
            = SelectSeq(cutLines, CuttingMotion)

----------------------------------------------------------------------------
(* C26-C27: the per-layer settings and the generated footer (SpecLayer) *)

\* C26: whatever the configured tool-off command, remove_gcode_footer takes the
\* laser-off line that ends the generated artifact for the laser-off line: the
\* text it returns holds neither the tool-off command nor a return to the
\* origin.
C26_ToolOffRecognised ==
    tPc = "footer" =>
        \A i \in 1..Len(tLines) :
            /\ strip(tLines[i]) # chars(config.tool_off_command.s)
            /\ ~IsOriginMove(tLines[i])

\* the fields of a per-layer record that are per-layer
PerLayerFields == {"cutting_speed", "tool_power_command", "layer_name"}

\* the record carries this name, this speed and the command of this power
Carries(rec, name, speed, power) ==
    /\ rec.layer_name = Str(name)
    /\ rec.cutting_speed = speed
    /\ rec.tool_power_command = Str("M3 S" \o str_int(power.n) \o ";")

\* C27: the two per-layer records derived from one CombineConfig agree on
\* every field but cutting speed, laser power command and layer name, each of
\* these fields being the copy of the field of the CombineConfig; the engrave
\* record carries the engrave speed and power and the name engrave, the cut
\* record the cut speed and power and the name cut; the CombineConfig is left
\* unchanged.
C27_LayerRecordsAgree ==
    [][(cPc = "engrave" /\ cPc' = "cut") =>
          LET e == cOut.value
              c == cOut'.value
          IN  /\ DOMAIN e = DOMAIN c
              /\ \A k \in DOMAIN e \ PerLayerFields : e[k] = c[k] /\ e[k] = config[k]
              /\ Carries(e, "engrave", config.engrave_cutting_speed, config.engrave_power)
              /\ Carries(c, "cut", config.cut_cutting_speed, config.cut_power)
              /\ config' = config]_vars

\* C27 witness: both records have been derived from a CombineConfig whose two
\* layers differ in speed and power and whose global fields are not all the
\* defaults.
C27_Witness ==
    /\ cPc = "cut"
    /\ cOut.value.layer_name = Str("cut")
    /\ config.engrave_power # config.cut_power
    /\ config.engrave_cutting_speed # config.cut_cutting_speed
    /\ config.unit = Str("in")
    /\ config.tool_off_command # Str("M5;")

----------------------------------------------------------------------------
(* C22: main with a configuration file (specification SpecResolve) *)

\* the value of a flag: the value passed on the command line, or the default
\* of the option
FlagValue(k) == IF In(k, cli_args) THEN cli_args.kv[k] ELSE click_defaults[k]

============================================================================
